---------------------------- MODULE Spec2Model ----------------------------
(***************************************************************************)
(* Reference extraction and resolution of bible_progress_tracker.          *)
(*                                                                         *)
(* Strings are sequences of one-character strings; offsets into a text are *)
(* 0-based and intervals half-open, as in Python's re module.              *)
(***************************************************************************)
EXTENDS Integers, Sequences, FiniteSets, TLC

VARIABLES
    text,            \* the message handed to the annotator
    variant,         \* "utils" (BibleRegexBuilder) or "annotator" (BibleReferenceAnnotator)
    phase,           \* position of apply_annotations: "idle", "structured", "ner", "done"
    pat,             \* index of the pattern the generator is iterating (NumPatterns + 1: exhausted)
    pos,             \* offset where finditer resumes its scan for the current pattern
    matched_ranges,  \* get_non_overlapping_matches: the accepted (start, end) pairs
    yielded,         \* the match objects the generator has yielded in this call
    results,         \* extract_structured: the list being built
    spans,           \* extract_ner_spans: the list being built
    stats,           \* BookResolver.stats
    last,            \* the query and the return value of the last BookResolver.resolve call
    vargs,           \* arguments of a validate_chapters call in progress
    vresult,         \* its return value
    candidates,      \* BibleReferenceNormalizer.normalize: its argument
    idx,             \* index of the candidate the loop of normalize is at
    normalized,      \* the list normalize is building
    npc,             \* position of normalize: "idle", "loop", "returned"
    catalog,         \* the list of books a resolver is being constructed from
    exact_mapping,   \* ExactBookMatcher.alias_to_book once built
    fuzzy_mapping,   \* FuzzyBookMatcher.variation_to_book once built
    cpc,             \* position of BookResolver.__init__
    rt_path,         \* the extraction in use: "old" or "pipeline"
    rt_text,         \* the text given to the extraction
    rt_refs,         \* the references it returned
    rt_parent,       \* the reference whose normalized_text was extracted again
    rt_gen,          \* number of extractions done
    b_books,         \* BibleRegexBuilder / BibleReferenceAnnotator: the bible_books argument
    b_kind,          \* which of the two classes is being constructed
    b_patterns,      \* self.patterns once built
    b_text,          \* the text handed to extract_structured afterwards
    b_results,       \* what extract_structured returned
    bpc,             \* position: "idle", "start", "built", "extracted"
    callers,         \* the concurrent callers of one shared BookResolver
    x_cfg,           \* BibleProgressExtractor: llm_extractor configured, use_llm_first
    x_messages,      \* the messages handed to extract and to extract_batch
    x_llm,           \* what the LLM handler answers for each message
    x_single,        \* the results of extract(message), message by message
    x_batch          \* the result of extract_batch(messages)

matchVars == <<text, variant, phase, pat, pos, matched_ranges, yielded, results, spans>>

resolveVars == <<stats, last>>

validateVars == <<vargs, vresult>>

normVars == <<candidates, idx, normalized, npc>>

catalogVars == <<catalog, exact_mapping, fuzzy_mapping, cpc>>

roundTripVars == <<rt_path, rt_text, rt_refs, rt_parent, rt_gen>>

buildVars == <<b_books, b_kind, b_patterns, b_text, b_results, bpc>>

concurrentVars == <<callers>>

extractVars == <<x_cfg, x_messages, x_llm, x_single, x_batch>>

vars == <<matchVars, resolveVars, validateVars, normVars, catalogVars, roundTripVars,
          buildVars, concurrentVars, extractVars>>

\* what the operations of one component leave unchanged
frameMatch     == <<resolveVars, validateVars, normVars, catalogVars, roundTripVars, buildVars, concurrentVars, extractVars>>
frameResolve   == <<matchVars, validateVars, normVars, catalogVars, roundTripVars, buildVars, concurrentVars, extractVars>>
frameValidate  == <<matchVars, resolveVars, normVars, catalogVars, roundTripVars, buildVars, concurrentVars, extractVars>>
frameNorm      == <<matchVars, validateVars, catalogVars, roundTripVars, buildVars, concurrentVars, extractVars>>
frameCatalog   == <<matchVars, resolveVars, validateVars, normVars, roundTripVars, buildVars, concurrentVars, extractVars>>
frameRoundTrip == <<matchVars, validateVars, catalogVars, buildVars, concurrentVars, extractVars>>
frameBuild     == <<matchVars, resolveVars, validateVars, normVars, catalogVars, roundTripVars,
                    concurrentVars, extractVars>>
frameConcurrent == <<matchVars, validateVars, normVars, catalogVars, roundTripVars, buildVars,
                    extractVars>>
frameOldResolve == <<matchVars, validateVars, normVars, roundTripVars, buildVars, concurrentVars,
                     extractVars>>
frameExtract   == <<matchVars, resolveVars, validateVars, normVars, catalogVars, roundTripVars,
                    buildVars, concurrentVars>>

-----------------------------------------------------------------------------
(* Characters *)

UpperSeq == <<"A","B","C","D","E","F","G","H","I","J","K","L","M",
              "N","O","P","Q","R","S","T","U","V","W","X","Y","Z">>
LowerSeq == <<"a","b","c","d","e","f","g","h","i","j","k","l","m",
              "n","o","p","q","r","s","t","u","v","w","x","y","z">>
DigitSeq == <<"0","1","2","3","4","5","6","7","8","9">>

UpperChars == {UpperSeq[i] : i \in 1..26}
LowerChars == {LowerSeq[i] : i \in 1..26}
Letters    == UpperChars \cup LowerChars
Digits     == {DigitSeq[i] : i \in 1..10}
Spaces     == {" "}
\* the character class [-–—]: hyphen, en dash, em dash
Dashes     == {"-", "ndash", "mdash"}
\* the character classes [_*:\(\[] and [_*\)\]] of the annotator
PrefixMarkup == {"_", "*", ":", "(", "["}
SuffixMarkup == {"_", "*", ")", "]"}

\* str.lower() on one character
LowerChar(c) ==
    IF c \in UpperChars
    THEN LowerSeq[CHOOSE i \in 1..26 : UpperSeq[i] = c]
    ELSE c

\* str.lower()
Lower(s) == [i \in 1..Len(s) |-> LowerChar(s[i])]

DigitVal(c) == (CHOOSE i \in 1..10 : DigitSeq[i] = c) - 1

\* int(s) for a string of decimal digits
RECURSIVE ParseInt(_)
ParseInt(s) ==
    IF s = <<>> THEN 0
    ELSE 10 * ParseInt(SubSeq(s, 1, Len(s) - 1)) + DigitVal(s[Len(s)])

\* str(n) for n >= 0
RECURSIVE IntToStr(_)
IntToStr(n) ==
    IF n < 10 THEN <<DigitSeq[n + 1]>>
    ELSE Append(IntToStr(n \div 10), DigitSeq[(n % 10) + 1])

\* text[a:b]
Slice(t, a, b) == SubSeq(t, a + 1, b)

\* str.strip()
Strip(s) ==
    IF \A i \in 1..Len(s) : s[i] \in Spaces THEN <<>>
    ELSE LET a == CHOOSE i \in 1..Len(s) :
                     s[i] \notin Spaces /\ \A j \in 1..(i - 1) : s[j] \in Spaces
             b == CHOOSE i \in 1..Len(s) :
                     s[i] \notin Spaces /\ \A j \in (i + 1)..Len(s) : s[j] \in Spaces
         IN SubSeq(s, a, b)

\* ' '.join(s.split())
RECURSIVE Collapse(_)
Collapse(s) ==
    LET u == Strip(s) IN
    IF u = <<>> THEN <<>>
    ELSE IF \A i \in 1..Len(u) : u[i] \notin Spaces THEN u
    ELSE LET k == CHOOSE i \in 1..Len(u) :
                      u[i] \in Spaces /\ \A j \in 1..(i - 1) : u[j] \notin Spaces
         IN SubSeq(u, 1, k - 1) \o <<" ">> \o Collapse(SubSeq(u, k, Len(u)))

RECURSIVE Flat(_)
Flat(ss) == IF ss = <<>> THEN <<>> ELSE Head(ss) \o Flat(Tail(ss))

\* end of the longest run of characters of class S that starts at offset p
RECURSIVE RunEnd(_, _, _)
RunEnd(t, p, S) ==
    IF p < Len(t) /\ t[p + 1] \in S THEN RunEnd(t, p + 1, S) ELSE p

-----------------------------------------------------------------------------
(* The book catalog: data/bible_references.json, an input of the program *)

s_Kejadian == <<"K","e","j","a","d","i","a","n">>
s_Kej      == <<"K","e","j">>
s_Keluaran == <<"K","e","l","u","a","r","a","n">>
s_Kel      == <<"K","e","l">>
s_Matius   == <<"M","a","t","i","u","s">>
s_Mat      == <<"M","a","t">>
s_1Korintus == <<"1"," ","K","o","r","i","n","t","u","s">>
s_1Kor     == <<"1"," ","K","o","r">>

bible_books ==
    [books |-> <<
        [id |-> 1, name |-> s_Kejadian, aliases |-> <<s_Kejadian, s_Kej>>,
         testament |-> "OT", chapters |-> 50],
        [id |-> 2, name |-> s_Keluaran, aliases |-> <<s_Keluaran, s_Kel>>,
         testament |-> "OT", chapters |-> 40],
        [id |-> 40, name |-> s_Matius, aliases |-> <<s_Matius, s_Mat>>,
         testament |-> "NT", chapters |-> 28],
        [id |-> 46, name |-> s_1Korintus, aliases |-> <<s_1Korintus, s_1Kor>>,
         testament |-> "NT", chapters |-> 16]
    >>]

-----------------------------------------------------------------------------
(* BibleRegexBuilder.build_patterns / BibleReferenceAnnotator.__init__ *)

\* aliases.extend(book['aliases']) over all books
RECURSIVE AllAliases(_)
AllAliases(books) ==
    IF books = <<>> THEN <<>>
    ELSE Head(books).aliases \o AllAliases(Tail(books))

\* set(aliases), kept in first-occurrence order
RECURSIVE Dedup(_)
Dedup(s) ==
    IF s = <<>> THEN <<>>
    ELSE LET r == Dedup(SubSeq(s, 1, Len(s) - 1))
             x == s[Len(s)]
         IN IF \E i \in 1..Len(r) : r[i] = x THEN r ELSE Append(r, x)

\* an alias list left in catalog order
SortByLenDesc_unsorted(s) == s

\* sorted(..., key=len, reverse=True): a stable insertion by decreasing length
RECURSIVE SortByLenDesc(_)
SortByLenDesc(s) ==
    IF s = <<>> THEN <<>>
    ELSE LET r == SortByLenDesc(SubSeq(s, 1, Len(s) - 1))
             x == s[Len(s)]
             k == Cardinality({i \in 1..Len(r) : Len(r[i]) >= Len(x)})
         IN SubSeq(r, 1, k) \o <<x>> \o SubSeq(r, k + 1, Len(r))

\* range_words: (?:sampai|sampe|hingga|to)
RangeWords == << <<"s","a","m","p","a","i">>, <<"s","a","m","p","e">>,
                 <<"h","i","n","g","g","a">>, <<"t","o">> >>

\* The five patterns as sequences of parts, most specific first:
\* B book_pattern, C \s*(\d+), D range_dash, W range_words, N (\d+)
PatternParts_singleFirst ==
    << <<"B", "C">>,
       <<"B", "C", "D", "B", "C">>,
       <<"B", "C", "W", "B", "C">>,
       <<"B", "C", "D", "N">>,
       <<"B", "C", "W", "N">> >>

PatternParts ==
    << <<"B", "C", "D", "B", "C">>,
       <<"B", "C", "W", "B", "C">>,
       <<"B", "C", "D", "N">>,
       <<"B", "C", "W", "N">>,
       <<"B", "C">> >>

NumPatterns == Len(PatternParts)

\* the compiled pattern list: the alias alternation, whether the book
\* pattern tolerates markup around the alias, and the five patterns
build_patterns(books, markup) ==
    [aliases |-> SortByLenDesc(Dedup(AllAliases(books.books))),
     markup  |-> markup,
     parts   |-> PatternParts]

\* re.IGNORECASE comparison of a literal with the text at offset p
LiteralAt(t, p, lit) ==
    /\ p + Len(lit) <= Len(t)
    /\ \A i \in 1..Len(lit) : LowerChar(t[p + i]) = LowerChar(lit[i])

\* (?=\s*\d)
LookaheadDigit(t, p) ==
    LET q == RunEnd(t, p, Spaces) IN q < Len(t) /\ t[q + 1] \in Digits

\* (?<![A-Za-z])
NotAfterLetter(t, p) == p = 0 \/ t[p] \notin Letters

\* the optional suffix markup {0,2}, greedy, then the lookahead; r is the
\* offset after the optional dot
SuffixAlts(P, t, gs, ge, r) ==
    LET n == IF P.markup THEN RunEnd(t, r, SuffixMarkup) - r ELSE 0
        m == IF n > 2 THEN 2 ELSE n
    IN SelectSeq([k \in 1..(m + 1) |-> [gs |-> gs, ge |-> ge, end |-> r + (m + 1 - k)]],
                 LAMBDA a : LookaheadDigit(t, a.end))

\* \.? greedy
DotAlts(P, t, gs, ge) ==
    (IF ge < Len(t) /\ t[ge + 1] = "." THEN SuffixAlts(P, t, gs, ge, ge + 1) ELSE <<>>)
    \o SuffixAlts(P, t, gs, ge, ge)

\* (alias1|alias2|...) tried in list order at offset q; '|'.join of no
\* alias is the empty pattern, a group that matches the empty string
AliasAlts(P, t, q) ==
    IF P.aliases = <<>> THEN DotAlts(P, t, q, q)
    ELSE Flat([i \in 1..Len(P.aliases) |->
                 IF LiteralAt(t, q, P.aliases[i])
                 THEN DotAlts(P, t, q, q + Len(P.aliases[i]))
                 ELSE <<>>])

\* book_pattern at offset p: every way it can match, in the order the
\* backtracking matcher tries them; gs..ge is the alias group
BookAlts(P, t, p) ==
    IF ~NotAfterLetter(t, p) THEN <<>>
    ELSE LET n == IF P.markup THEN RunEnd(t, p, PrefixMarkup) - p ELSE 0
             m == IF n > 2 THEN 2 ELSE n
         IN Flat([k \in 1..(m + 1) |-> AliasAlts(P, t, p + (m + 1 - k))])

NoMatch == [ok |-> FALSE]

\* (\d+), greedy: no shorter run can be followed by anything but a digit
NumberAt(t, p) ==
    LET r == RunEnd(t, p, Digits)
    IN IF r > p THEN [ok |-> TRUE, gs |-> p, ge |-> r, end |-> r] ELSE NoMatch

\* \s+(\d+): a chapter pattern that insists on whitespace before the number
ChapterAt_needsSpace(t, p) ==
    IF RunEnd(t, p, Spaces) > p THEN NumberAt(t, RunEnd(t, p, Spaces)) ELSE NoMatch

\* \s*(\d+)
ChapterAt(t, p) == NumberAt(t, RunEnd(t, p, Spaces))

\* range_dash \s*[-–—]{1,2}\s*: a third dash can start neither a book nor a number
RangeDashAt(t, p) ==
    LET q == RunEnd(t, p, Spaces)
        n == RunEnd(t, q, Dashes) - q
    IN IF n \in {1, 2}
       THEN [ok |-> TRUE, end |-> RunEnd(t, q + n, Spaces)]
       ELSE NoMatch

\* range_words \s+(?:sampai|sampe|hingga|to)\s+
RangeWordsAt(t, p) ==
    LET q  == RunEnd(t, p, Spaces)
        ws == {i \in 1..Len(RangeWords) : LiteralAt(t, q, RangeWords[i])}
    IN IF q > p /\ ws # {}
       THEN LET w == CHOOSE i \in ws : \A j \in ws : i <= j
                r == q + Len(RangeWords[w])
                e == RunEnd(t, r, Spaces)
            IN IF e > r THEN [ok |-> TRUE, end |-> e] ELSE NoMatch
       ELSE NoMatch

\* match parts[i..] at offset p, with the groups g captured so far
RECURSIVE MatchParts(_, _, _, _, _, _), TryBooks(_, _, _, _, _, _, _)
MatchParts(P, parts, i, t, p, g) ==
    IF i > Len(parts) THEN [ok |-> TRUE, end |-> p, g |-> g]
    ELSE IF parts[i] = "B" THEN TryBooks(P, parts, i, t, BookAlts(P, t, p), 1, g)
    ELSE LET r == CASE parts[i] = "C" -> ChapterAt(t, p)
                    [] parts[i] = "N" -> NumberAt(t, p)
                    [] parts[i] = "D" -> RangeDashAt(t, p)
                    [] parts[i] = "W" -> RangeWordsAt(t, p)
         IN IF ~r.ok THEN NoMatch
            ELSE MatchParts(P, parts, i + 1, t, r.end,
                            IF parts[i] \in {"C", "N"} THEN Append(g, <<r.gs, r.ge>>) ELSE g)

TryBooks(P, parts, i, t, alts, k, g) ==
    IF k > Len(alts) THEN NoMatch
    ELSE LET r == MatchParts(P, parts, i + 1, t, alts[k].end,
                             Append(g, <<alts[k].gs, alts[k].ge>>))
         IN IF r.ok THEN r ELSE TryBooks(P, parts, i, t, alts, k + 1, g)

\* pattern.match at offset s: a match object (start, end, group spans)
MatchAt(P, n, t, s) ==
    LET r == MatchParts(P, P.parts[n], 1, t, s, <<>>)
    IN IF r.ok THEN [ok |-> TRUE, pat |-> n, start |-> s, end |-> r.end, g |-> r.g]
       ELSE NoMatch

\* the next match pattern.finditer produces when its scan resumes at offset s
RECURSIVE Search(_, _, _, _)
Search(P, n, t, s) ==
    IF s >= Len(t) THEN NoMatch
    ELSE LET m == MatchAt(P, n, t, s)
         IN IF m.ok THEN m ELSE Search(P, n, t, s + 1)

\* list(pattern.finditer(text))
RECURSIVE FindIter(_, _, _, _)
FindIter(P, n, t, s) ==
    LET m == Search(P, n, t, s)
    IN IF m.ok THEN <<m>> \o FindIter(P, n, t, m.end) ELSE <<>>

PatternsUtils     == build_patterns(bible_books, FALSE)
PatternsAnnotator == build_patterns(bible_books, TRUE)
PatternsOf(v) == IF v = "annotator" THEN PatternsAnnotator ELSE PatternsUtils


-----------------------------------------------------------------------------
(* Values of the parts of the state an operation never touches *)

NoCall == [called |-> FALSE]

MatchIdle ==
    /\ text = <<>>
    /\ variant = "utils"
    /\ phase = "idle"
    /\ pat = 1
    /\ pos = 0
    /\ matched_ranges = <<>>
    /\ yielded = <<>>
    /\ results = <<>>
    /\ spans = <<>>

\* BookResolver.__init__: the three counters at zero
ResolveIdle ==
    /\ stats = [exact_match |-> 0, fuzzy_match |-> 0, failed |-> 0]
    /\ last = NoCall

ValidateIdle ==
    /\ vargs = NoCall
    /\ vresult = NoCall

NormIdle ==
    /\ candidates = <<>>
    /\ idx = 1
    /\ normalized = <<>>
    /\ npc = "idle"

CatalogIdle ==
    /\ catalog = <<>>
    /\ exact_mapping = <<>>
    /\ fuzzy_mapping = <<>>
    /\ cpc = "idle"

RoundTripIdle ==
    /\ rt_path = "idle"
    /\ rt_text = <<>>
    /\ rt_refs = <<>>
    /\ rt_parent = NoCall
    /\ rt_gen = 0

\* self.patterns before __init__ has assigned it
NoPatterns == [built |-> FALSE]

BuildIdle ==
    /\ b_books = [books |-> <<>>]
    /\ b_kind = "utils"
    /\ b_patterns = NoPatterns
    /\ b_text = <<>>
    /\ b_results = <<>>
    /\ bpc = "idle"

ConcurrentIdle == callers = <<>>

\* extract_batch has not been called
NotRun == [run |-> FALSE]

ExtractIdle ==
    /\ x_cfg = [llm |-> FALSE, first |-> FALSE]
    /\ x_messages = <<>>
    /\ x_llm = <<>>
    /\ x_single = <<>>
    /\ x_batch = NotRun

-----------------------------------------------------------------------------
(* The texts the annotator is run on *)

Variants == {"utils", "annotator"}

\* number of tokens a generated text is made of
MaxTokens == 3

Tokens ==
    { <<"K","e","j"," ","1">>, <<"K","e","j">>, <<"1">>, <<"-">>,
      <<" ","t","o"," ">>, <<" ">>, <<"x">>, <<"*">> }

RECURSIVE TokenTexts(_)
TokenTexts(n) ==
    IF n = 0 THEN {<<>>}
    ELSE LET prev == TokenTexts(n - 1)
         IN prev \cup {t \o k : t \in prev, k \in Tokens}

\* "Kejadian 1-3 sampai Keluaran 2"
t_PriorityScenario ==
    s_Kejadian \o <<" ","1","-","3"," ","s","a","m","p","a","i"," ">>
               \o s_Keluaran \o <<" ","2">>
\* "Kejadian 3 sampai Keluaran 2"
t_CrossWords ==
    s_Kejadian \o <<" ","3"," ","s","a","m","p","a","i"," ">> \o s_Keluaran \o <<" ","2">>
\* "Kej 50 - Kel 2"
t_CrossDash == s_Kej \o <<" ","5","0"," ","-"," ">> \o s_Kel \o <<" ","2">>
\* "Kej 1 Kej 1-3"
t_LaterFirst == s_Kej \o <<" ","1"," ">> \o s_Kej \o <<" ","1","-","3">>
\* "1 Kor 5 hingga 7, Mat 29"
t_Mixed ==
    s_1Kor \o <<" ","5"," ","h","i","n","g","g","a"," ","7",","," ">> \o s_Mat \o <<" ","2","9">>
\* "kej1"
t_NoSpace == <<"k","e","j","1">>
\* "KEJ1"
t_UpperNoSpace == <<"K","E","J","1">>
\* "akej1 kej1"
t_InsideWord == <<"a","k","e","j","1"," ","k","e","j","1">>
\* "**[Kej.)] 12 mdash 14"
t_Markup ==
    <<"*","[">> \o s_Kej \o <<".",")","]"," ","1","2"," ","mdash"," ","1","4">>

ScenarioTexts ==
    { t_PriorityScenario, t_CrossWords, t_CrossDash, t_LaterFirst, t_Mixed,
      t_NoSpace, t_UpperNoSpace, t_InsideWord, t_Markup }

Texts == TokenTexts(MaxTokens) \cup ScenarioTexts

-----------------------------------------------------------------------------
(* BibleReferenceExtractor / BibleReferenceAnnotator: the matching pass and *)
(* its two consumers, run one after the other by apply_annotations          *)

\* any(not (match.end() <= start or end <= match.start()) for start, end in matched_ranges)
Overlaps_exactOnly(m, ranges) ==
    \E i \in 1..Len(ranges) : ranges[i] = <<m.start, m.end>>

Overlaps_touching(m, ranges) ==
    \E i \in 1..Len(ranges) : ~(m.end < ranges[i][1] \/ ranges[i][2] < m.start)

Overlaps(m, ranges) ==
    \E i \in 1..Len(ranges) : ~(m.end <= ranges[i][1] \/ ranges[i][2] <= m.start)

Group(t, m, k) == Slice(t, m.g[k][1], m.g[k][2])

\* an extract_structured that takes both books of a match from its first group
StructuredEntry_oneBook(t, m) ==
    [book_start    |-> Strip(Group(t, m, 1)),
     start_chapter |-> ParseInt(Group(t, m, 2)),
     book_end      |-> Strip(Group(t, m, 1)),
     end_chapter   |-> ParseInt(Group(t, m, Len(m.g))),
     raw_text      |-> Slice(t, m.start, m.end)]

\* the dict extract_structured appends for a match
StructuredEntry(t, m) ==
    IF Len(m.g) = 4
    THEN [book_start    |-> Strip(Group(t, m, 1)),
          start_chapter |-> ParseInt(Group(t, m, 2)),
          book_end      |-> Strip(Group(t, m, 3)),
          end_chapter   |-> ParseInt(Group(t, m, 4)),
          raw_text      |-> Slice(t, m.start, m.end)]
    ELSE [book_start    |-> Strip(Group(t, m, 1)),
          start_chapter |-> ParseInt(Group(t, m, 2)),
          book_end      |-> Strip(Group(t, m, 1)),
          end_chapter   |-> ParseInt(Group(t, m, Len(m.g))),
          raw_text      |-> Slice(t, m.start, m.end)]

\* a span that takes its offsets from the whole match and its text from the group
NerSpan_matchOffsets(t, m, k, label) ==
    [start |-> m.start, end |-> m.end, label |-> label, text |-> Group(t, m, k)]

NerSpan(t, m, k, label) ==
    [start |-> m.g[k][1], end |-> m.g[k][2], label |-> label, text |-> Group(t, m, k)]

\* an extract_ner_spans that leaves out the last chapter group of a range
NerEntries_noEndChapter(t, m) ==
    CASE Len(m.g) = 2 ->
           <<NerSpan(t, m, 1, "BOOK"), NerSpan(t, m, 2, "CHAPTER")>>
      [] Len(m.g) = 3 ->
           <<NerSpan(t, m, 1, "BOOK"), NerSpan(t, m, 2, "CHAPTER")>>
      [] Len(m.g) = 4 ->
           <<NerSpan(t, m, 1, "BOOK"), NerSpan(t, m, 2, "CHAPTER"),
             NerSpan(t, m, 3, "BOOK")>>

\* the spans extract_ner_spans appends for a match
NerEntries(t, m) ==
    CASE Len(m.g) = 2 ->
           <<NerSpan(t, m, 1, "BOOK"), NerSpan(t, m, 2, "CHAPTER")>>
      [] Len(m.g) = 3 ->
           <<NerSpan(t, m, 1, "BOOK"), NerSpan(t, m, 2, "CHAPTER"),
             NerSpan(t, m, 3, "CHAPTER")>>
      [] Len(m.g) = 4 ->
           <<NerSpan(t, m, 1, "BOOK"), NerSpan(t, m, 2, "CHAPTER"),
             NerSpan(t, m, 3, "BOOK"), NerSpan(t, m, 4, "CHAPTER")>>

Matching == phase \in {"structured", "ner"} /\ pat <= NumPatterns

\* the match finditer hands to the loop body next
CurMatch == Search(PatternsOf(variant), pat, text, pos)

MatchInit ==
    /\ text \in Texts
    /\ variant \in Variants
    /\ phase = "structured"
    /\ pat = 1
    /\ pos = 0
    /\ matched_ranges = <<>>
    /\ yielded = <<>>
    /\ results = <<>>
    /\ spans = <<>>
    /\ ResolveIdle
    /\ ValidateIdle
    /\ NormIdle
    /\ CatalogIdle
    /\ RoundTripIdle
    /\ BuildIdle
    /\ ConcurrentIdle
    /\ ExtractIdle

\* a match that overlaps no accepted range: recorded, yielded and consumed
AcceptMatch ==
    /\ Matching
    /\ CurMatch.ok
    /\ ~Overlaps(CurMatch, matched_ranges)
    /\ matched_ranges' = Append(matched_ranges, <<CurMatch.start, CurMatch.end>>)
    /\ yielded' = Append(yielded, CurMatch)
    /\ pos' = CurMatch.end
    /\ IF phase = "structured"
       THEN /\ results' = Append(results, StructuredEntry(text, CurMatch))
            /\ spans' = spans
       ELSE /\ spans' = spans \o NerEntries(text, CurMatch)
            /\ results' = results
    /\ UNCHANGED <<text, variant, phase, pat, frameMatch>>

\* a match that overlaps an accepted range: `continue`
DiscardMatch ==
    /\ Matching
    /\ CurMatch.ok
    /\ Overlaps(CurMatch, matched_ranges)
    /\ pos' = CurMatch.end
    /\ UNCHANGED <<text, variant, phase, pat, matched_ranges, yielded, results, spans, frameMatch>>

\* finditer is exhausted: the outer loop moves to the next pattern
NextPattern ==
    /\ Matching
    /\ ~CurMatch.ok
    /\ pat' = pat + 1
    /\ pos' = 0
    /\ UNCHANGED <<text, variant, phase, matched_ranges, yielded, results, spans, frameMatch>>

\* extract_structured returns; apply_annotations calls extract_ner_spans
ReturnStructured ==
    /\ phase = "structured"
    /\ pat > NumPatterns
    /\ phase' = "ner"
    /\ pat' = 1
    /\ pos' = 0
    /\ matched_ranges' = <<>>
    /\ yielded' = <<>>
    /\ UNCHANGED <<text, variant, results, spans, frameMatch>>

\* extract_ner_spans returns
ReturnNer ==
    /\ phase = "ner"
    /\ pat > NumPatterns
    /\ phase' = "done"
    /\ UNCHANGED <<text, variant, pat, pos, matched_ranges, yielded, results, spans, frameMatch>>

MatchNext ==
    \/ AcceptMatch
    \/ DiscardMatch
    \/ NextPattern
    \/ ReturnStructured
    \/ ReturnNer

SpecMatch == MatchInit /\ [][MatchNext]_vars

-----------------------------------------------------------------------------
(* Properties of the matching pass *)

\* two half-open intervals share an offset
Intersects(a, b) == \E k \in a[1]..(a[2] - 1) : b[1] <= k /\ k < b[2]

PairwiseDisjoint(rs) ==
    \A i, j \in 1..Len(rs) : i < j => ~Intersects(rs[i], rs[j])

SpanRanges == [i \in 1..Len(spans) |-> <<spans[i].start, spans[i].end>>]

\* some pattern has a match in the text that the pass did not accept
SomeDiscarded ==
    \E n \in 1..NumPatterns :
        LET ms == FindIter(PatternsOf(variant), n, text, 0)
        IN \E i \in 1..Len(ms) :
              \A k \in 1..Len(matched_ranges) :
                  matched_ranges[k] # <<ms[i].start, ms[i].end>>

\* C1: the accepted matches have pairwise disjoint intervals, so the spans of
\* extract_ner_spans are pairwise disjoint and the references of
\* extract_structured are the texts of pairwise disjoint intervals of the source.
C1_NoOverlap ==
    /\ PairwiseDisjoint(matched_ranges)
    /\ PairwiseDisjoint(SpanRanges)
    /\ phase = "structured" =>
          /\ Len(results) = Len(matched_ranges)
          /\ \A i \in 1..Len(results) :
                results[i].raw_text =
                    Slice(text, matched_ranges[i][1], matched_ranges[i][2])

C1_Witness ==
    /\ phase = "done"
    /\ Len(matched_ranges) >= 2
    /\ Len(results) >= 2
    /\ Len(spans) >= 4
    /\ SomeDiscarded

C2_Step ==
    (Matching /\ CurMatch.ok) =>
        LET r    == <<CurMatch.start, CurMatch.end>>
            free == \A i \in 1..Len(matched_ranges) : ~Intersects(r, matched_ranges[i])
        IN /\ free => /\ matched_ranges' = Append(matched_ranges, r)
                      /\ yielded' = Append(yielded, CurMatch)
           /\ ~free => /\ matched_ranges' = matched_ranges
                       /\ yielded' = yielded

C2_NoRetract ==
    phase' = phase =>
        /\ Len(matched_ranges') >= Len(matched_ranges)
        /\ SubSeq(matched_ranges', 1, Len(matched_ranges)) = matched_ranges

C2_Priority ==
    \A i, j \in 1..Len(yielded) :
        i < j => /\ yielded[i].pat <= yielded[j].pat
                 /\ ~Intersects(<<yielded[i].start, yielded[i].end>>,
                                <<yielded[j].start, yielded[j].end>>)

C2_Maximal ==
    pat > NumPatterns =>
        \A n \in 1..NumPatterns :
            LET ms == FindIter(PatternsOf(variant), n, text, 0)
            IN \A i \in 1..Len(ms) :
                  \E k \in 1..Len(matched_ranges) :
                      Intersects(<<ms[i].start, ms[i].end>>, matched_ranges[k])

\* C2: a match is accepted exactly when its interval intersects no interval
\* accepted before it; accepted matches are never retracted during a call;
\* matches are accepted in pattern order without overlaps; and when the pass
\* ends every match of every pattern intersects an accepted interval.
C2_GreedyAcceptance ==
    /\ [][C2_Step /\ C2_NoRetract]_vars
    /\ [](C2_Priority /\ C2_Maximal)

C2_Witness ==
    /\ phase = "done"
    /\ SomeDiscarded
    /\ \E i, j \in 1..Len(yielded) :
          /\ i < j
          /\ yielded[i].pat < yielded[j].pat
          /\ yielded[j].start < yielded[i].start

MatchingEnded == phase = "structured" /\ pat > NumPatterns

StructuredRecord(bs, sc, be, ec, raw) ==
    [book_start |-> bs, start_chapter |-> sc, book_end |-> be, end_chapter |-> ec,
     raw_text |-> raw]

\* C6 as claimed: "Kejadian 1-3 sampai Keluaran 2" gives exactly one match, a
\* cross-book reference from Kejadian to Keluaran.
C6_CrossBookWins ==
    (MatchingEnded /\ text = t_PriorityScenario) =>
        /\ Len(results) = 1
        /\ results[1].book_start = s_Kejadian
        /\ results[1].book_end = s_Keluaran

\* C6 amended: on "Kejadian 1-3 sampai Keluaran 2" no cross-book pattern
\* matches; the pass accepts the single-book dash range "Kejadian 1-3" and the
\* single chapter "Keluaran 2".  On "Kejadian 3 sampai Keluaran 2" the
\* cross-book worded pattern wins and is the only accepted match.
C6_PriorityScenario ==
    MatchingEnded =>
        /\ text = t_PriorityScenario =>
              /\ results =
                   << StructuredRecord(s_Kejadian, 1, s_Kejadian, 3,
                                       s_Kejadian \o <<" ","1","-","3">>),
                      StructuredRecord(s_Keluaran, 2, s_Keluaran, 2,
                                       s_Keluaran \o <<" ","2">>) >>
              /\ [i \in 1..Len(yielded) |-> yielded[i].pat] = <<3, 5>>
        /\ text = t_CrossWords =>
              /\ results =
                   << StructuredRecord(s_Kejadian, 3, s_Keluaran, 2, t_CrossWords) >>
              /\ [i \in 1..Len(yielded) |-> yielded[i].pat] = <<2>>

C6_Witness == MatchingEnded /\ text = t_PriorityScenario /\ Len(results) = 2

\* C10 as claimed: a three-group (single-book range) match contributes one
\* CHAPTER span, from the start of the start-chapter group to the end of the
\* end-chapter group.
C10_MergedChapterSpan ==
    phase = "done" =>
        \A i \in 1..Len(yielded) :
            Len(yielded[i].g) = 3 =>
                LET m  == yielded[i]
                    ch == {k \in 1..Len(spans) :
                              /\ spans[k].label = "CHAPTER"
                              /\ m.start <= spans[k].start
                              /\ spans[k].end <= m.end}
                IN /\ Cardinality(ch) = 1
                   /\ \A k \in ch : /\ spans[k].start = m.g[2][1]
                                    /\ spans[k].end = m.g[3][2]

\* the offsets n at which t splits into an alias, in any letter case, and a
\* chapter number written right behind it
AliasDigitSplits(t) ==
    {n \in 1..(Len(t) - 1) :
        /\ \E i \in 1..Len(PatternsUtils.aliases) :
              Lower(SubSeq(t, 1, n)) = Lower(PatternsUtils.aliases[i])
        /\ \A k \in (n + 1)..Len(t) : t[k] \in Digits}

\* the alias groups of a match: the first, and the third of a four-group match
BookGroups(m) == IF Len(m.g) = 4 THEN {1, 3} ELSE {1}

\* C16: an alias with a chapter number right behind it, no whitespace between
\* them, in any letter case ("kej1", "KEJ1", "Kej1"), is accepted as one
\* single-chapter reference; and no accepted match has an alias that starts
\* directly after a letter, so an alias inside a longer word is not matched.
C16_NoSpaceBoundary ==
    /\ \A i \in 1..Len(yielded) : \A k \in BookGroups(yielded[i]) :
          \/ yielded[i].g[k][1] = 0
          \/ text[yielded[i].g[k][1]] \notin Letters
    /\ MatchingEnded =>
          \A n \in AliasDigitSplits(text) :
             /\ results = << StructuredRecord(SubSeq(text, 1, n),
                                              ParseInt(SubSeq(text, n + 1, Len(text))),
                                              SubSeq(text, 1, n),
                                              ParseInt(SubSeq(text, n + 1, Len(text))),
                                              text) >>
             /\ Len(yielded) = 1
             /\ Len(yielded[1].g) = 2

C16_Witness ==
    /\ MatchingEnded
    /\ text = t_InsideWord
    /\ Len(yielded) = 1
    /\ yielded[1].start = 6
    /\ results = << StructuredRecord(Lower(s_Kej), 1, Lower(s_Kej), 1, t_NoSpace) >>

\* C13: the accepted matches are handed out in increasing order of their
\* start, whichever pattern produced them.  get_non_overlapping_matches yields
\* in acceptance order (pattern by pattern) and nothing sorts afterwards: on
\* "Kej 1 Kej 1-3" the dash range at 6 is yielded before the single chapter at 0.
C13_TextualOrder ==
    \A i, j \in 1..Len(yielded) :
        i < j => yielded[i].start < yielded[j].start

\* the label of group k of a match: the alias groups are 1 and, in a
\* cross-book match, 3
GroupLabel(m, k) ==
    IF k = 1 \/ (Len(m.g) = 4 /\ k = 3) THEN "BOOK" ELSE "CHAPTER"

\* one span per group of a match, in group order
GroupSpans(t, m) ==
    [k \in 1..Len(m.g) |->
        [start |-> m.g[k][1], end |-> m.g[k][2], label |-> GroupLabel(m, k),
         text |-> SubSeq(t, m.g[k][1] + 1, m.g[k][2])]]

\* C23: extract_structured and extract_ner_spans are built from the same
\* accepted matches in the same order: while either runs it has produced one
\* reference (resp. the group spans) per match accepted so far, and when both
\* have returned the references are the entries of the very matches whose
\* groups are the BOOK and CHAPTER spans, one reference per match.
C23_SameMatches ==
    /\ phase = "structured" =>
          /\ Len(results) = Len(yielded)
          /\ spans = <<>>
    /\ phase \in {"ner", "done"} =>
          spans = Flat([i \in 1..Len(yielded) |-> GroupSpans(text, yielded[i])])
    /\ phase = "done" =>
          /\ Len(results) = Len(yielded)
          /\ Len(results) = Len(matched_ranges)
          /\ \A i \in 1..Len(yielded) :
                /\ results[i].raw_text = SubSeq(text, yielded[i].start + 1, yielded[i].end)
                /\ results[i].book_start = Strip(GroupSpans(text, yielded[i])[1].text)
                /\ results[i].start_chapter = ParseInt(GroupSpans(text, yielded[i])[2].text)
                /\ results[i].end_chapter =
                      ParseInt(GroupSpans(text, yielded[i])[Len(yielded[i].g)].text)
                /\ results[i].book_end =
                      Strip(GroupSpans(text, yielded[i])
                               [IF Len(yielded[i].g) = 4 THEN 3 ELSE 1].text)

C23_Witness ==
    /\ phase = "done"
    /\ text = t_Mixed
    /\ Len(results) = 2
    /\ Len(spans) = 5
    /\ spans[1].text = s_1Kor /\ spans[3].text = <<"7">>
    /\ spans[4].text = s_Mat /\ spans[5].text = <<"2","9">>

\* the accepted match a span was appended for
MatchOfSpan(k) ==
    CHOOSE i \in 1..Len(yielded) :
        LET before == Len(Flat([j \in 1..(i - 1) |-> GroupSpans(text, yielded[j])]))
        IN before < k /\ k <= before + Len(yielded[i].g)

\* C24: every span of extract_ner_spans satisfies 0 <= start < end <= length
\* of the text, its text is the slice source[start:end], it lies inside the
\* interval of the match it was appended for, and within one match a BOOK span
\* ends before the CHAPTER span after it begins.
C24_SpanBounds ==
    phase \in {"ner", "done"} =>
        /\ \A k \in 1..Len(spans) :
              /\ 0 <= spans[k].start
              /\ spans[k].start < spans[k].end
              /\ spans[k].end <= Len(text)
              /\ spans[k].text = SubSeq(text, spans[k].start + 1, spans[k].end)
              /\ spans[k].label \in {"BOOK", "CHAPTER"}
              /\ yielded[MatchOfSpan(k)].start <= spans[k].start
              /\ spans[k].end <= yielded[MatchOfSpan(k)].end
        /\ \A k \in 1..(Len(spans) - 1) :
              (spans[k].label = "BOOK" /\ MatchOfSpan(k) = MatchOfSpan(k + 1)) =>
                 /\ spans[k + 1].label = "CHAPTER"
                 /\ spans[k].end <= spans[k + 1].start

C24_Witness ==
    /\ phase = "done"
    /\ text = t_CrossDash
    /\ Len(yielded) = 1
    /\ Len(spans) = 4
    /\ spans[3] = [start |-> 9, end |-> 12, label |-> "BOOK", text |-> s_Kel]
    /\ spans[4] = [start |-> 13, end |-> 14, label |-> "CHAPTER", text |-> <<"2">>]

-----------------------------------------------------------------------------
(* Construction of the pattern list from a catalog, and one extraction with *)
(* the list that was built                                                  *)

\* the loop body of get_non_overlapping_matches over the matches of one pattern
RECURSIVE AcceptFrom(_, _)
AcceptFrom(ms, acc) ==
    IF ms = <<>> THEN acc
    ELSE AcceptFrom(Tail(ms),
            IF Overlaps(Head(ms), acc.ranges) THEN acc
            ELSE [ranges |-> Append(acc.ranges, <<Head(ms).start, Head(ms).end>>),
                  out    |-> Append(acc.out, Head(ms))])

\* "for pattern in self.patterns" from pattern n on
RECURSIVE PatternsFrom(_, _, _, _)
PatternsFrom(P, t, n, acc) ==
    IF n > Len(P.parts) THEN acc.out
    ELSE PatternsFrom(P, t, n + 1, AcceptFrom(FindIter(P, n, t, 0), acc))

\* list(get_non_overlapping_matches(text))
get_non_overlapping_matches(P, t) ==
    PatternsFrom(P, t, 1, [ranges |-> <<>>, out |-> <<>>])

extract_structured(P, t) ==
    LET ms == get_non_overlapping_matches(P, t)
    IN [i \in 1..Len(ms) |-> StructuredEntry(t, ms[i])]

\* number of tokens of a text given to a freshly built extractor
MaxBuildTokens == 2

\* a book whose alias list is empty
NoAliasBook == [id |-> 1, name |-> s_Kejadian, aliases |-> <<>>,
                testament |-> "OT", chapters |-> 50]

\* a book whose aliases share a prefix and can each stand before a digit:
\* "Kej", "Kej.", "Kej 1", "Kej 1-"
PrefixBook ==
    [id |-> 1, name |-> s_Kejadian,
     aliases |-> <<s_Kej, s_Kej \o <<".">>, s_Kej \o <<" ","1">>,
                   s_Kej \o <<" ","1","-">>>>,
     testament |-> "OT", chapters |-> 50]

\* catalogs a builder is constructed from: no book, a book without aliases,
\* one book, the four books, a book with prefix-sharing aliases
BuildCatalogs ==
    { [books |-> <<>>], [books |-> <<NoAliasBook>>],
      [books |-> <<bible_books.books[1]>>], bible_books,
      [books |-> <<PrefixBook>>] }

\* "Kej. 1-3"
t_DotAlias == s_Kej \o <<"."," ","1","-","3">>
\* "Kej 12-3"
t_DigitAlias == s_Kej \o <<" ","1","2","-","3">>
\* "Kej 1-23"
t_DashAlias == s_Kej \o <<" ","1","-","2","3">>
\* "Kej 2 - Kej. 3"
t_CrossPrefix == s_Kej \o <<" ","2"," ","-"," ">> \o s_Kej \o <<"."," ","3">>

BuildTexts ==
    TokenTexts(MaxBuildTokens) \cup ScenarioTexts
        \cup {t_DotAlias, t_DigitAlias, t_DashAlias, t_CrossPrefix}

BuildInit ==
    /\ MatchIdle
    /\ ResolveIdle
    /\ ValidateIdle
    /\ NormIdle
    /\ CatalogIdle
    /\ RoundTripIdle
    /\ ConcurrentIdle
    /\ ExtractIdle
    /\ b_books \in BuildCatalogs
    /\ b_kind \in Variants
    /\ b_patterns = NoPatterns
    /\ b_text \in BuildTexts
    /\ b_results = <<>>
    /\ bpc = "start"

\* BibleRegexBuilder.__init__ / BibleReferenceAnnotator.__init__:
\* self.patterns = the five compiled patterns; no statement of either raises
BuildPatterns ==
    /\ bpc = "start"
    /\ b_patterns' = build_patterns(b_books, b_kind = "annotator")
    /\ bpc' = "built"
    /\ UNCHANGED <<b_books, b_kind, b_text, b_results, frameBuild>>

\* BibleReferenceExtractor(builder.patterns).extract_structured(text)
ExtractStructured ==
    /\ bpc = "built"
    /\ \E out \in {extract_structured(b_patterns, b_text)} : b_results' = out
    /\ bpc' = "extracted"
    /\ UNCHANGED <<b_books, b_kind, b_patterns, b_text, frameBuild>>

BuildNext == BuildPatterns \/ ExtractStructured

SpecBuild == BuildInit /\ [][BuildNext]_vars

\* C15: building the pattern list from a catalog that yields zero aliases
\* fails: no pattern list is produced, and no text is matched with an empty
\* book alternative.  The builders join the empty alias list into an empty
\* alternation and compile it; "1-3" then matches with empty book texts.
C15_EmptyCatalogFails ==
    AllAliases(b_books.books) = <<>> =>
        /\ bpc \notin {"built", "extracted"}
        /\ b_patterns = NoPatterns
        /\ b_results = <<>>

\* the ways book_pattern can match at offset p with its alias group starting
\* at gs and the parts after part i of the pattern completing behind it
CompletingAlts(P, parts, i, t, p, gs) ==
    SelectSeq(BookAlts(P, t, p),
              LAMBDA a : /\ a.gs = gs
                         /\ MatchParts(P, parts, i + 1, t, a.end, <<>>).ok)

\* the offset at which the second book_pattern of a cross-book match starts
SecondBookAt(P, t, m) ==
    IF P.parts[m.pat][3] = "D" THEN RangeDashAt(t, m.g[2][2]).end
    ELSE RangeWordsAt(t, m.g[2][2]).end

\* C22: when several aliases match at one text position, each followed by a
\* chapter number with which the pattern of the match goes through, the book
\* group of the match is the longest of them; this holds for the first book
\* group of every match and for the second one of a cross-book match, and the
\* book text returned is that group.
C22_LongestAlias ==
    bpc = "extracted" =>
        LET ms == get_non_overlapping_matches(b_patterns, b_text)
        IN /\ Len(b_results) = Len(ms)
           /\ \A i \in 1..Len(ms) :
                LET m     == ms[i]
                    parts == b_patterns.parts[m.pat]
                    first == CompletingAlts(b_patterns, parts, 1, b_text,
                                            m.start, m.g[1][1])
                IN /\ \A k \in 1..Len(first) :
                        first[k].ge - first[k].gs <= m.g[1][2] - m.g[1][1]
                   /\ b_results[i].book_start = Strip(Group(b_text, m, 1))
                   /\ Len(m.g) = 4 =>
                        LET second == CompletingAlts(b_patterns, parts, 4, b_text,
                                          SecondBookAt(b_patterns, b_text, m),
                                          m.g[3][1])
                        IN /\ \A k \in 1..Len(second) :
                                second[k].ge - second[k].gs <= m.g[3][2] - m.g[3][1]
                           /\ b_results[i].book_end = Strip(Group(b_text, m, 3))

\* C22 as stated: of all aliases that match at the position of the book group
\* and are followed by a chapter number, the group is the longest, whether or
\* not the pattern of the match goes through with that alias.
C22_LongestFollowedAlias ==
    bpc = "extracted" =>
        LET ms == get_non_overlapping_matches(b_patterns, b_text)
        IN \A i \in 1..Len(ms) :
              LET alts == BookAlts(b_patterns, b_text, ms[i].start)
              IN \A k \in 1..Len(alts) :
                    alts[k].gs = ms[i].g[1][1] =>
                       alts[k].ge - alts[k].gs <= ms[i].g[1][2] - ms[i].g[1][1]

C22_Witness ==
    /\ bpc = "extracted"
    /\ b_books = [books |-> <<PrefixBook>>]
    /\ b_text = t_DigitAlias
    /\ Len(CompletingAlts(b_patterns, b_patterns.parts[3], 1, b_text, 0, 0)) >= 2
    /\ Len(b_results) = 1
    /\ b_results[1].book_start = s_Kej \o <<" ","1">>
    /\ b_results[1].start_chapter = 2
    /\ b_results[1].end_chapter = 3

-----------------------------------------------------------------------------
(* ExactBookMatcher, FuzzyBookMatcher, BookResolver                         *)
(*                                                                         *)
(* A dict is a sequence of <<key, value>> pairs in insertion order.  A     *)
(* float is a pair <<n, d>> standing for n / d, d > 0.                     *)

NoBook == [none |-> TRUE]

DictHas(d, k) == \E i \in 1..Len(d) : d[i][1] = k

\* d.get(k)
DictGet(d, k) ==
    IF DictHas(d, k) THEN d[CHOOSE i \in 1..Len(d) : d[i][1] = k][2] ELSE NoBook

\* d[k] = v
DictSet(d, k, v) ==
    IF DictHas(d, k)
    THEN [d EXCEPT ![CHOOSE i \in 1..Len(d) : d[i][1] = k] = <<k, v>>]
    ELSE Append(d, <<k, v>>)

\* list(d.keys())
DictKeys(d) == [i \in 1..Len(d) |-> d[i][1]]

RECURSIVE SetAliases(_, _, _)
SetAliases(d, aliases, book) ==
    IF aliases = <<>> THEN d
    ELSE SetAliases(DictSet(d, Lower(Head(aliases)), book), Tail(aliases), book)

\* ExactBookMatcher.build_alias_mapping and FuzzyBookMatcher.build_variation_mapping:
\* the name, then each alias, lower-cased; a later entry replaces an earlier one
RECURSIVE BuildMapping(_, _)
BuildMapping(d, books) ==
    IF books = <<>> THEN d
    ELSE BuildMapping(
            SetAliases(DictSet(d, Lower(Head(books).name), Head(books)),
                       Head(books).aliases, Head(books)),
            Tail(books))

build_alias_mapping(books) == BuildMapping(<<>>, books)

build_variation_mapping(books) == BuildMapping(<<>>, books)

Zero == <<0, 1>>
One  == <<1, 1>>

\* a >= b and a > b on floats
Geq(a, b) == a[1] * b[2] >= b[1] * a[2]
Gt(a, b)  == a[1] * b[2] > b[1] * a[2]
FloatEq(a, b) == a[1] * b[2] = b[1] * a[2]

\* `not query_text`
Falsy(q) == q = <<>>

\* ExactBookMatcher.match
ExactMatch(alias_to_book, query_text) ==
    IF Falsy(query_text) THEN [book |-> NoBook, conf |-> Zero]
    ELSE LET query == Collapse(Lower(query_text))
             book  == DictGet(alias_to_book, query)
         IN IF book # NoBook THEN [book |-> book, conf |-> One]
            ELSE [book |-> NoBook, conf |-> Zero]

Max2(a, b) == IF a >= b THEN a ELSE b

\* one row of the longest-common-subsequence table: row[j + 1] is the LCS
\* length of the prefix of a ending in x and the prefix of b of length j
RECURSIVE LcsRow(_, _, _, _)
LcsRow(x, b, prev, acc) ==
    LET j == Len(acc)
    IN IF j > Len(b) THEN acc
       ELSE LcsRow(x, b, prev,
                   Append(acc, IF x = b[j] THEN prev[j] + 1
                               ELSE Max2(prev[j + 1], acc[j])))

RECURSIVE LcsFrom(_, _, _, _)
LcsFrom(a, b, i, prev) ==
    IF i > Len(a) THEN prev[Len(b) + 1]
    ELSE LcsFrom(a, b, i + 1, LcsRow(a[i], b, prev, <<0>>))

LCS(a, b) == LcsFrom(a, b, 1, [j \in 1..(Len(b) + 1) |-> 0])

\* rapidfuzz.fuzz.ratio: the normalized Indel similarity, 0..100
FuzzRatio(a, b) ==
    IF Len(a) + Len(b) = 0 THEN <<100, 1>>
    ELSE <<200 * LCS(a, b), Len(a) + Len(b)>>

\* rapidfuzz.process.extractOne(query, choices, scorer=fuzz.ratio, score_cutoff=cutoff):
\* the first choice with the best score among those scoring at least cutoff
RECURSIVE ExtractOneFrom(_, _, _, _, _)
ExtractOneFrom(query, choices, cutoff, i, best) ==
    IF i > Len(choices) THEN best
    ELSE LET score == FuzzRatio(query, choices[i])
         IN IF Geq(score, <<cutoff, 1>>) /\ (~best.found \/ Gt(score, best.score))
            THEN ExtractOneFrom(query, choices, cutoff, i + 1,
                                [found |-> TRUE, choice |-> choices[i], score |-> score])
            ELSE ExtractOneFrom(query, choices, cutoff, i + 1, best)

ExtractOne_strictCutoff(query, choices, cutoff) ==
    LET r == ExtractOneFrom(query, choices, cutoff, 1, [found |-> FALSE])
    IN IF r.found /\ Gt(r.score, <<cutoff, 1>>) THEN r ELSE [found |-> FALSE]

ExtractOne(query, choices, cutoff) ==
    ExtractOneFrom(query, choices, cutoff, 1, [found |-> FALSE])

\* FuzzyBookMatcher.match
FuzzyMatch(variation_to_book, similarity_threshold, query_text) ==
    IF Falsy(query_text) THEN [book |-> NoBook, conf |-> Zero]
    ELSE LET query  == Collapse(Lower(query_text))
             result == ExtractOne(query, DictKeys(variation_to_book), similarity_threshold)
         IN IF ~result.found THEN [book |-> NoBook, conf |-> Zero]
            ELSE LET book == DictGet(variation_to_book, result.choice)
                 IN IF book = NoBook THEN [book |-> NoBook, conf |-> Zero]
                    ELSE [book |-> book, conf |-> <<result.score[1], result.score[2] * 100>>]

\* FuzzyBookMatcher.__init__: similarity_threshold: int = 80
SimilarityThreshold == 80

\* BookResolver.__init__(books, use_fuzzy=True)
BookResolver(books) ==
    [alias_to_book       |-> build_alias_mapping(books),
     variation_to_book   |-> build_variation_mapping(books),
     similarity_threshold |-> SimilarityThreshold]

\* a matcher list with the fuzzy matcher in front
MatcherResult_fuzzyFirst(R, k, book_text) ==
    IF k = 1 THEN FuzzyMatch(R.variation_to_book, R.similarity_threshold, book_text)
    ELSE ExactMatch(R.alias_to_book, book_text)

\* the matchers of self.matchers, in order
MatcherResult(R, k, book_text) ==
    IF k = 1 THEN ExactMatch(R.alias_to_book, book_text)
    ELSE FuzzyMatch(R.variation_to_book, R.similarity_threshold, book_text)

\* BookResolver.resolve without its counter: the book and method returned,
\* the stage that produced the book and the confidence that stage reported
RECURSIVE ResolveFrom(_, _, _)
ResolveFrom(R, k, book_text) ==
    IF k > 2 THEN [book |-> NoBook, method |-> "failed", stage |-> 0, conf |-> Zero]
    ELSE LET r == MatcherResult(R, k, book_text)
         IN IF r.book # NoBook
            THEN [book   |-> r.book,
                  method |-> IF r.conf[1] = r.conf[2] THEN "exact" ELSE "fuzzy",
                  stage  |-> k,
                  conf   |-> r.conf]
            ELSE ResolveFrom(R, k + 1, book_text)

resolve(R, book_text) == ResolveFrom(R, 1, book_text)

\* a resolver that books a failure under fuzzy_match
Count_failedAsFuzzy(st, method) ==
    CASE method = "exact"  -> [st EXCEPT !.exact_match = @ + 1]
      [] method = "fuzzy"  -> [st EXCEPT !.fuzzy_match = @ + 1]
      [] method = "failed" -> [st EXCEPT !.fuzzy_match = @ + 1]

\* a counter update that adds two
Count_twice(st, method) ==
    CASE method = "exact"  -> [st EXCEPT !.exact_match = @ + 2]
      [] method = "fuzzy"  -> [st EXCEPT !.fuzzy_match = @ + 2]
      [] method = "failed" -> [st EXCEPT !.failed = @ + 2]

\* self.stats[...] += 1
Count(st, method) ==
    CASE method = "exact"  -> [st EXCEPT !.exact_match = @ + 1]
      [] method = "fuzzy"  -> [st EXCEPT !.fuzzy_match = @ + 1]
      [] method = "failed" -> [st EXCEPT !.failed = @ + 1]

\* the resolver built from the catalog
Resolver == BookResolver(bible_books.books)

-----------------------------------------------------------------------------
(* The book texts resolve is called with *)

\* number of characters of a known name or alias that a query drops or mistypes
MaxEdits == 1

\* number of resolve calls on one resolver
MaxCalls == 2

DropChar(w, i) == SubSeq(w, 1, i - 1) \o SubSeq(w, i + 1, Len(w))
MistypeChar(w, i) == [w EXCEPT ![i] = "x"]

RECURSIVE Edits(_, _)
Edits(w, n) ==
    IF n = 0 THEN {w}
    ELSE LET prev == Edits(w, n - 1)
         IN prev \cup UNION {{DropChar(v, i) : i \in 1..Len(v)} : v \in prev}
                 \cup UNION {{MistypeChar(v, i) : i \in 1..Len(v)} : v \in prev}

KnownKeys == {Resolver.alias_to_book[i][1] : i \in 1..Len(Resolver.alias_to_book)}

\* names and aliases as written in a message
SurfaceTexts ==
    { s_Kej, s_Kejadian, s_1Kor, s_Matius,
      <<" "," ","K","E","J"," ">>,
      <<"1"," "," ","k","o","r">>,
      <<>>, <<" ">>, <<"X","y","z">> }

BookTexts == UNION {Edits(k, MaxEdits) : k \in KnownKeys} \cup SurfaceTexts

\* resolve on every book text, computed once
ResolveTable == [q \in BookTexts |-> resolve(Resolver, q)]

\* what BookResolver.__init__ leaves behind: both indexes built from the catalog
ResolverBuilt ==
    /\ catalog = bible_books.books
    /\ exact_mapping = Resolver.alias_to_book
    /\ fuzzy_mapping = Resolver.variation_to_book
    /\ cpc = "built"

ResolveInit ==
    /\ MatchIdle
    /\ ResolveIdle
    /\ ValidateIdle
    /\ NormIdle
    /\ ResolverBuilt
    /\ RoundTripIdle
    /\ BuildIdle
    /\ ConcurrentIdle
    /\ ExtractIdle

\* one call resolver.resolve(book_text)
Resolve(book_text) ==
    /\ stats.exact_match + stats.fuzzy_match + stats.failed < MaxCalls
    /\ LET r == ResolveTable[book_text]
       IN /\ stats' = Count(stats, r.method)
          /\ last' = [called |-> TRUE, query |-> book_text, book |-> r.book,
                      method |-> r.method, stage |-> r.stage, conf |-> r.conf]
    /\ UNCHANGED frameResolve

ResolveCall == \E q \in BookTexts : Resolve(q)

ResolveNext == ResolveCall

SpecResolve == ResolveInit /\ [][ResolveNext]_vars

-----------------------------------------------------------------------------
(* Several callers in resolve on one shared BookResolver.  The statement   *)
(* self.stats[key] += 1 reads the counter, adds one and writes it back;    *)
(* nothing in the class orders the callers between the read and the write. *)

\* number of concurrent callers
MaxCallers == 2

\* a misspelt name within the fuzzy threshold, and a text that names no book
s_Matus == <<"M","a","t","u","s">>
s_Xyz   == <<"X","y","z">>

CallerTexts == {s_Kej, s_Kel, s_Matus, s_Xyz}

\* the key of self.stats a method is counted under
StatsKey(method) ==
    CASE method = "exact"  -> "exact_match"
      [] method = "fuzzy"  -> "fuzzy_match"
      [] method = "failed" -> "failed"

ConcurrentInit ==
    /\ MatchIdle
    /\ ResolveIdle
    /\ ValidateIdle
    /\ NormIdle
    /\ CatalogIdle
    /\ RoundTripIdle
    /\ BuildIdle
    /\ ExtractIdle
    /\ callers \in [1..MaxCallers ->
                      {[pc |-> "start", book_text |-> q, book |-> NoBook,
                        method |-> "none", tmp |-> 0] : q \in CallerTexts}]

\* the loop over self.matchers: the book and the method the call will return
RunMatchers(c) ==
    /\ callers[c].pc = "start"
    /\ \E r \in {resolve(Resolver, callers[c].book_text)} :
         callers' = [callers EXCEPT ![c].book = r.book, ![c].method = r.method,
                                    ![c].pc = "load"]
    /\ UNCHANGED <<resolveVars, frameConcurrent>>

\* self.stats[key] += 1, first half: read the counter
LoadCounter(c) ==
    /\ callers[c].pc = "load"
    /\ callers' = [callers EXCEPT ![c].tmp = stats[StatsKey(callers[c].method)],
                                 ![c].pc = "store"]
    /\ UNCHANGED <<resolveVars, frameConcurrent>>

\* self.stats[key] += 1, second half: write the sum back; then return
StoreCounter(c) ==
    /\ callers[c].pc = "store"
    /\ stats' = [stats EXCEPT ![StatsKey(callers[c].method)] = callers[c].tmp + 1]
    /\ callers' = [callers EXCEPT ![c].pc = "returned"]
    /\ UNCHANGED <<last, frameConcurrent>>

ConcurrentNext ==
    \/ \E c \in DOMAIN callers : RunMatchers(c)
    \/ \E c \in DOMAIN callers : LoadCounter(c)
    \/ \E c \in DOMAIN callers : StoreCounter(c)

SpecConcurrent == ConcurrentInit /\ [][ConcurrentNext]_vars

AllReturned == callers # <<>> /\ \A c \in DOMAIN callers : callers[c].pc = "returned"

\* C18: with several callers in resolve on one shared resolver no increment
\* is lost: once all calls have returned the three counters sum to the number
\* of calls, and each call has returned the book and method of a sequential
\* run.  The return values are those of a sequential run, but two callers that
\* count under the same key can both read the old value, and one increment
\* is lost.
C18_NoLostIncrement ==
    /\ \A c \in DOMAIN callers :
          callers[c].pc \in {"load", "store", "returned"} =>
             /\ callers[c].book = resolve(Resolver, callers[c].book_text).book
             /\ callers[c].method = resolve(Resolver, callers[c].book_text).method
    /\ AllReturned =>
          stats.exact_match + stats.fuzzy_match + stats.failed = Len(callers)

-----------------------------------------------------------------------------
(* Properties of BookResolver.resolve *)

KeyOf(q) == Collapse(Lower(q))

IsKnown(q) == KeyOf(q) \in KnownKeys

\* the books of the catalog that carry the key as lower-cased name or alias
BooksOfKey(k) ==
    {bible_books.books[i] : i \in
        {i \in 1..Len(bible_books.books) :
            \/ Lower(bible_books.books[i].name) = k
            \/ \E j \in 1..Len(bible_books.books[i].aliases) :
                  Lower(bible_books.books[i].aliases[j]) = k}}

\* the highest similarity of the normalized query with a known name or alias
BestScore(q) ==
    LET scores == {FuzzRatio(KeyOf(q), k) : k \in KnownKeys}
    IN CHOOSE x \in scores : \A y \in scores : Geq(x, y)

Threshold == <<SimilarityThreshold, 1>>

\* C4: a known alias resolves in the exact stage with confidence 1.0 and
\* method exact; a book from the fuzzy stage has a best alias score of at least
\* the threshold, confidence score / 100 >= threshold / 100 and method fuzzy; a
\* best score at the threshold is accepted and one below it yields no book.
C4_ResolutionConfidence ==
    last.called =>
        LET q    == last.query
            best == BestScore(q)
        IN /\ IsKnown(q) =>
                /\ last.stage = 1
                /\ last.method = "exact"
                /\ last.conf = One
                /\ last.book \in BooksOfKey(KeyOf(q))
           /\ last.stage = 1 => IsKnown(q)
           /\ last.stage = 2 =>
                /\ Geq(best, Threshold)
                /\ FloatEq(<<last.conf[1] * 100, last.conf[2]>>, best)
                /\ Geq(last.conf, <<SimilarityThreshold, 100>>)
                /\ last.method = "fuzzy"
                /\ \E k \in KnownKeys :
                      FuzzRatio(KeyOf(q), k) = best /\ last.book \in BooksOfKey(k)
           /\ (~IsKnown(q) /\ Geq(best, Threshold)) => last.stage = 2
           /\ (~IsKnown(q) /\ ~Geq(best, Threshold)) =>
                /\ last.book = NoBook
                /\ last.method = "failed"

C4_Witness ==
    /\ last.called
    /\ last.stage = 2
    /\ last.method = "fuzzy"
    /\ FloatEq(BestScore(last.query), Threshold)
    /\ stats.exact_match = 1

\* C20: a resolve call adds exactly one to exactly one counter, the one keyed
\* by the method it returns, and leaves the other two counters, the catalog
\* and both alias indexes as they were; the counters start at zero, so after
\* n calls in sequence they sum to n.
C20_OneCounterPerCall ==
    /\ [](/\ ~last.called => stats.exact_match + stats.fuzzy_match + stats.failed = 0
          /\ exact_mapping = build_alias_mapping(bible_books.books)
          /\ fuzzy_mapping = build_variation_mapping(bible_books.books))
    /\ [][/\ last'.called
          /\ stats'[StatsKey(last'.method)] = stats[StatsKey(last'.method)] + 1
          /\ \A k \in DOMAIN stats \ {StatsKey(last'.method)} : stats'[k] = stats[k]
          /\ catalog' = catalog
          /\ exact_mapping' = exact_mapping
          /\ fuzzy_mapping' = fuzzy_mapping]_vars

C20_Witness ==
    /\ last.called
    /\ last.method = "failed"
    /\ stats = [exact_match |-> 1, fuzzy_match |-> 0, failed |-> 1]
    /\ exact_mapping = Resolver.alias_to_book

\* the method name of a stage of the cascade: 1 exact, 2 fuzzy, 0 neither
StageName(k) == CASE k = 1 -> "exact" [] k = 2 -> "fuzzy" [] k = 0 -> "failed"

\* C21: resolve tries the exact stage before the fuzzy stage and stops at the
\* first hit: a text whose normalized form is a key of the alias index gets
\* that key's book from stage 1 with method exact; the fuzzy stage produces a
\* book only when the exact stage found none; the method returned names the
\* stage that produced the book, and the counter that goes up is that stage's.
C21_ExactBeforeFuzzy ==
    /\ [](last.called =>
            LET q     == last.query
                exact == ExactMatch(exact_mapping, q)
            IN /\ (~Falsy(q) /\ DictHas(exact_mapping, KeyOf(q))) =>
                    /\ last.stage = 1
                    /\ last.method = "exact"
                    /\ last.book = DictGet(exact_mapping, KeyOf(q))
               /\ last.method = StageName(last.stage)
               /\ last.stage = 1 => last.book = exact.book /\ last.book # NoBook
               /\ last.stage = 2 =>
                    /\ exact.book = NoBook
                    /\ last.book =
                         FuzzyMatch(fuzzy_mapping, SimilarityThreshold, q).book
                    /\ last.book # NoBook
               /\ last.stage = 0 =>
                    /\ exact.book = NoBook
                    /\ last.book = NoBook)
    /\ [][stats'[StatsKey(StageName(last'.stage))]
              = stats[StatsKey(StageName(last'.stage))] + 1]_vars

C21_Witness ==
    /\ last.called
    /\ last.query = <<" "," ","K","E","J"," ">>
    /\ last.stage = 1
    /\ last.method = "exact"
    /\ last.book.id = 1
    /\ stats = [exact_match |-> 1, fuzzy_match |-> 1, failed |-> 0]

-----------------------------------------------------------------------------
(* The older resolver, preprocessing/book_resolver.py: build_alias_map is a *)
(* module-level function with the parameter `self`, called as              *)
(* build_alias_map(books); the matchers are paired with their MatchMethod.  *)

\* FuzzyBookMatcher.__init__ of the older module: similarity_threshold: int = 90
OldSimilarityThreshold == 90

\* the arguments BookResolver(books) is constructed with: the list of book
\* dicts, the loaded JSON dict, an object with an attribute `books`
OldResolverArgs ==
    {[kind |-> k, books |-> bible_books.books] : k \in {"list", "dict", "object"}}

\* build_alias_map(books): `self.books` of its argument
build_alias_map(arg) ==
    IF arg.kind = "object"
    THEN [raised |-> "", mapping |-> BuildMapping(<<>>, arg.books)]
    ELSE [raised |-> "AttributeError", mapping |-> <<>>]

\* the tuple (book_data, 1.0) as a value of its own
Pair(book, conf) == [pair |-> <<book, conf>>]

\* ExactBookMatcher.match of the older module; its last line
\* `return (book, 1.0) if book else None, 0.0` builds the two-element tuple
\* ((book, 1.0) if book else None, 0.0)
OldExactMatch(alias_to_book, query_text) ==
    IF Falsy(query_text) THEN [first |-> NoBook, second |-> Zero]
    ELSE LET book == DictGet(alias_to_book, Collapse(Lower(query_text)))
         IN [first  |-> IF book # NoBook THEN Pair(book, One) ELSE NoBook,
             second |-> Zero]

\* FuzzyBookMatcher.match of the older module
OldFuzzyMatch(variation_to_book, query_text) ==
    LET r == FuzzyMatch(variation_to_book, OldSimilarityThreshold, query_text)
    IN [first |-> r.book, second |-> r.conf]

\* BookResolver.resolve of the older module without its counter: the first
\* matcher whose first tuple element is truthy decides, under its own method
old_resolve(alias_to_book, variation_to_book, book_text) ==
    LET e == OldExactMatch(alias_to_book, book_text)
    IN IF e.first # NoBook
       THEN [book |-> e.first, method |-> "exact"]
       ELSE LET f == OldFuzzyMatch(variation_to_book, book_text)
            IN IF f.first # NoBook
               THEN [book |-> f.first, method |-> "fuzzy"]
               ELSE [book |-> NoBook, method |-> "failed"]

OldResolveInit ==
    /\ MatchIdle
    /\ ResolveIdle
    /\ ValidateIdle
    /\ NormIdle
    /\ RoundTripIdle
    /\ BuildIdle
    /\ ConcurrentIdle
    /\ ExtractIdle
    /\ catalog \in OldResolverArgs
    /\ exact_mapping = <<>>
    /\ fuzzy_mapping = <<>>
    /\ cpc = "start"

\* BookResolver.__init__(books): the exact matcher, the fuzzy matcher, the counters
OldConstruct ==
    /\ cpc = "start"
    /\ \E m \in {build_alias_map(catalog)} :
          IF m.raised # ""
          THEN /\ cpc' = "raised"
               /\ UNCHANGED <<exact_mapping, fuzzy_mapping, stats>>
          ELSE /\ exact_mapping' = m.mapping
               /\ fuzzy_mapping' = m.mapping
               /\ stats' = [exact |-> 0, fuzzy |-> 0, failed |-> 0]
               /\ cpc' = "built"
    /\ UNCHANGED <<catalog, last, frameOldResolve>>

\* one call resolver.resolve(book_text)
OldResolveCall ==
    /\ cpc = "built"
    /\ stats.exact + stats.fuzzy + stats.failed < MaxCalls
    /\ \E q \in BookTexts :
       \E r \in {old_resolve(exact_mapping, fuzzy_mapping, q)} :
          /\ stats' = [stats EXCEPT ![r.method] = @ + 1]
          /\ last' = [called |-> TRUE, query |-> q, book |-> r.book, method |-> r.method]
    /\ UNCHANGED <<catalogVars, frameOldResolve>>

OldResolveNext == OldConstruct \/ OldResolveCall

SpecOldResolve == OldResolveInit /\ [][OldResolveNext]_vars

\* C26: the match of the older ExactBookMatcher returns (book_data, 1.0) for a
\* known alias and (None, 0.0) otherwise, and BookResolver.resolve returns the
\* book record itself with method exact for a known alias and goes on to the
\* fuzzy stage or to failed for an unknown one.
C26_OldExactReturnsBook ==
    last.called =>
       /\ IsKnown(last.query) =>
             /\ OldExactMatch(exact_mapping, last.query)
                   = [first  |-> DictGet(exact_mapping, KeyOf(last.query)),
                      second |-> One]
             /\ last.book = DictGet(exact_mapping, KeyOf(last.query))
             /\ last.method = "exact"
       /\ ~IsKnown(last.query) =>
             /\ OldExactMatch(exact_mapping, last.query)
                   = [first |-> NoBook, second |-> Zero]
             /\ last.method \in {"fuzzy", "failed"}

-----------------------------------------------------------------------------
(* BibleReferenceValidator.validate_chapters and the copy of it in the     *)
(* older BibleReferenceNormalizer                                          *)

validate_chapters_offByOne(book_data, start_ch, end_ch) ==
    IF start_ch < 1 \/ end_ch < 1 THEN FALSE
    ELSE IF start_ch > end_ch THEN FALSE
    ELSE IF end_ch >= book_data.chapters THEN FALSE
    ELSE TRUE

validate_chapters(book_data, start_ch, end_ch) ==
    IF start_ch < 1 \/ end_ch < 1 THEN FALSE
    ELSE IF start_ch > end_ch THEN FALSE
    ELSE IF end_ch > book_data.chapters THEN FALSE
    ELSE TRUE

normalizer_validate_chapters(book_data, start_ch, end_ch) ==
    IF start_ch < 1 \/ end_ch < 1 THEN FALSE
    ELSE IF start_ch > end_ch THEN FALSE
    ELSE IF end_ch > book_data.chapters THEN FALSE
    ELSE TRUE

Books == {bible_books.books[i] : i \in 1..Len(bible_books.books)}

MaxChapterCount == CHOOSE n \in {b.chapters : b \in Books} : \A b \in Books : b.chapters <= n

\* chapter arguments from below the first chapter to past the longest book
ChapterArgs == (-1)..(MaxChapterCount + 1)

ValidateInit ==
    /\ MatchIdle
    /\ ResolveIdle
    /\ vargs \in [impl : {"validator", "normalizer"}, book : Books,
                  start_ch : ChapterArgs, end_ch : ChapterArgs]
    /\ vresult = NoCall
    /\ NormIdle
    /\ CatalogIdle
    /\ RoundTripIdle
    /\ BuildIdle
    /\ ConcurrentIdle
    /\ ExtractIdle

ValidateCall ==
    /\ vresult = NoCall
    /\ vresult' =
          [called |-> TRUE,
           value  |-> IF vargs.impl = "validator"
                      THEN validate_chapters(vargs.book, vargs.start_ch, vargs.end_ch)
                      ELSE normalizer_validate_chapters(vargs.book, vargs.start_ch, vargs.end_ch)]
    /\ UNCHANGED <<frameValidate, vargs>>

ValidateNext == ValidateCall

SpecValidate == ValidateInit /\ [][ValidateNext]_vars

\* C3: validate_chapters is true exactly when start >= 1, end >= 1,
\* start <= end and end <= chapter count; so true on 1 <= start <= end <= count
\* and false at start = 0, at end = count + 1 and when start > end.
C3_ValidateChapters ==
    vresult # NoCall =>
        LET s == vargs.start_ch
            e == vargs.end_ch
            n == vargs.book.chapters
        IN /\ vresult.value <=> (s >= 1 /\ e >= 1 /\ s <= e /\ e <= n)
           /\ (1 <= s /\ s <= e /\ e <= n) => vresult.value
           /\ s = 0 => ~vresult.value
           /\ e = n + 1 => ~vresult.value
           /\ s > e => ~vresult.value

C3_Witness ==
    /\ vresult # NoCall
    /\ vresult.value
    /\ vargs.start_ch = 1
    /\ vargs.end_ch = vargs.book.chapters

-----------------------------------------------------------------------------
\* BibleReferenceNormalizer.normalize (preprocessing/normalization)

\* str(n) of an int, as an f-string formats it
str(n) == IF n < 0 THEN <<"-">> \o IntToStr(-n) ELSE IntToStr(n)

\* a range that includes its end
range_closed(a, b) == [i \in 1..(IF b >= a THEN b - a + 1 ELSE 0) |-> a + i - 1]

\* list(range(a, b))
range(a, b) == [i \in 1..(IF b > a THEN b - a ELSE 0) |-> a + i - 1]

\* a lookup that answers with the default whether or not the key is there
get_alwaysDefault(d, key, default) == default

\* dict.get(key, default)
get(d, key, default) == IF key \in DOMAIN d THEN d[key] ELSE default

\* A candidate is a record of the keys that hold a value; the keys that hold
\* None are the elements of its field "none" and have no field of their own.
IsNone(d, key) == "none" \in DOMAIN d /\ key \in d.none

\* key in d
HasKey(d, key) == key \in DOMAIN d \/ IsNone(d, key)

\* resolve(None): `not query_text` holds in both matchers
resolve_None == [book |-> NoBook, method |-> "failed", stage |-> 0, conf |-> Zero]

\* self.resolver.resolve(ref["book_text"]) without its counter
ResolveCandidate(ref) ==
    IF IsNone(ref, "book_text") THEN resolve_None
    ELSE resolve(Resolver, ref.book_text)

\* the exception the loop body raises for ref, "" when it raises none:
\* ref["book_text"], ref["start_chapter"] or ref["end_chapter"] of a missing key,
\* `start_ch < 1`, `end_ch < 1` or `end_ch + 1` of a None chapter
Raised(ref, book_data) ==
    IF ~HasKey(ref, "book_text") THEN "KeyError"
    ELSE IF book_data = NoBook THEN ""
    ELSE IF ~HasKey(ref, "start_chapter") \/ ~HasKey(ref, "end_chapter") THEN "KeyError"
    ELSE IF IsNone(ref, "start_chapter") \/ IsNone(ref, "end_chapter") THEN "TypeError"
    ELSE ""

\* the dict appended for a candidate whose book resolved
NormalizedRecord(ref, book_data) ==
    LET start_ch == ref.start_chapter
        end_ch   == ref.end_chapter
        is_valid == validate_chapters(book_data, start_ch, end_ch)
    IN [book            |-> book_data.name,
        book_id         |-> book_data.id,
        testament       |-> book_data.testament,
        start_chapter   |-> start_ch,
        end_chapter     |-> end_ch,
        chapters        |-> range(start_ch, end_ch + 1),
        raw_text        |-> ref.book_text,
        normalized_text |-> book_data.name \o <<" ">> \o str(start_ch)
                              \o <<"-">> \o str(end_ch),
        is_valid        |-> is_valid,
        confidence      |-> get(ref, "confidence", One),
        source          |-> get(ref, "source", "rule")]

\* one iteration of the loop of normalize that keeps only valid references
NormalizeBody_dropInvalid(acc, ref, book_data) ==
    IF book_data = NoBook \/ ~validate_chapters(book_data, ref.start_chapter, ref.end_chapter)
    THEN acc
    ELSE Append(acc, NormalizedRecord(ref, book_data))

\* one iteration of the loop of normalize, after the call of resolve
NormalizeBody(acc, ref, book_data) ==
    IF book_data = NoBook
    THEN acc
    ELSE Append(acc, NormalizedRecord(ref, book_data))

\* candidates as the extractors hand them over
MaxCandidates == 2

CandidateBookTexts == {s_Mat, s_Kej, s_Matus, s_Xyz}

CandidateChapters == {<<1, 3>>, <<28, 28>>, <<29, 29>>, <<3, 1>>, <<0, 2>>}

\* RuleBasedExtractor.extract: every key present, confidence 1.0, source rule
RuleCandidate(b, ch) ==
    [book_text |-> b, start_chapter |-> ch[1], end_chapter |-> ch[2],
     raw_text |-> b \o <<" ">> \o str(ch[1]) \o <<"-">> \o str(ch[2]),
     confidence |-> One, source |-> "rule"]

\* a candidate of the LLM extractor: its own confidence and source
LlmCandidate(b, ch) ==
    [RuleCandidate(b, ch) EXCEPT !.confidence = <<7, 10>>, !.source = "llm"]

\* a candidate that carries neither confidence nor source
BareCandidate(b, ch) ==
    [book_text |-> b, start_chapter |-> ch[1], end_chapter |-> ch[2],
     raw_text |-> b]

\* LLMExtractor.empty_result(message)
empty_result(message) ==
    [none |-> {"book_text", "start_chapter", "end_chapter"},
     raw_text |-> message, confidence |-> Zero, source |-> "llm"]

\* an item of LLMExtractor.parse_response whose JSON object has no chapters:
\* item.get("start_chapter") and item.get("end_chapter") are None
NoChapterCandidate(b, message) ==
    [book_text |-> b, none |-> {"start_chapter", "end_chapter"},
     raw_text |-> message, confidence |-> <<7, 10>>, source |-> "llm"]

\* a dict that has no chapter keys at all
KeylessCandidate(b) == [book_text |-> b, raw_text |-> b]

\* a dict that has no book_text key
TextlessCandidate(ch) == [start_chapter |-> ch[1], end_chapter |-> ch[2]]

MalformedCandidates ==
    {empty_result(s_Xyz), NoChapterCandidate(s_Kej, s_Kej), KeylessCandidate(s_Mat),
     TextlessCandidate(<<1, 3>>)}

Candidates ==
    {RuleCandidate(b, ch) : b \in CandidateBookTexts, ch \in CandidateChapters}
    \cup {LlmCandidate(s_Matus, <<1, 3>>), LlmCandidate(s_Xyz, <<1, 3>>),
          BareCandidate(s_Mat, <<29, 29>>), BareCandidate(s_Kej, <<1, 3>>)}
    \cup MalformedCandidates

CandidateLists == UNION {[1..n -> Candidates] : n \in 0..MaxCandidates}

NormalizeInit ==
    /\ MatchIdle
    /\ ResolveIdle
    /\ ValidateIdle
    /\ CatalogIdle
    /\ RoundTripIdle
    /\ BuildIdle
    /\ ConcurrentIdle
    /\ ExtractIdle
    /\ candidates \in CandidateLists
    /\ idx = 1
    /\ normalized = <<>>
    /\ npc = "loop"

\* the body of "for ref in candidates" for the candidate at idx
NormalizeIteration ==
    /\ npc = "loop"
    /\ idx <= Len(candidates)
    /\ \E ref \in {candidates[idx]} :
         IF ~HasKey(ref, "book_text")
         THEN /\ npc' = "raised"
              /\ UNCHANGED <<idx, normalized, resolveVars>>
         ELSE \E r \in {ResolveCandidate(ref)} :
                /\ stats' = Count(stats, r.method)
                /\ last' = [called |-> TRUE, query |-> get(ref, "book_text", NoBook),
                            book |-> r.book, method |-> r.method,
                            stage |-> r.stage, conf |-> r.conf]
                /\ IF Raised(ref, r.book) # ""
                   THEN /\ npc' = "raised"
                        /\ UNCHANGED <<idx, normalized>>
                   ELSE /\ normalized' = NormalizeBody(normalized, ref, r.book)
                        /\ idx' = idx + 1
                        /\ npc' = npc
    /\ UNCHANGED <<candidates, frameNorm>>

\* "return normalized"
NormalizeReturn ==
    /\ npc = "loop"
    /\ idx > Len(candidates)
    /\ npc' = "returned"
    /\ UNCHANGED <<candidates, idx, normalized, resolveVars, frameNorm>>

NormalizeNext == NormalizeIteration \/ NormalizeReturn

SpecNormalize == NormalizeInit /\ [][NormalizeNext]_vars

-----------------------------------------------------------------------------
\* Properties of normalize

\* a book text resolves: its key is an alias, or its best score reaches the threshold
Resolves(q) == IsKnown(q) \/ Geq(BestScore(q), Threshold)

\* the book a resolving text names
BookOf(q) == resolve(Resolver, q).book

\* the book text of a candidate resolves (a None book text never does)
\* a candidate that holds a value under each of the three keys normalize reads
WellFormed(c) == {"book_text", "start_chapter", "end_chapter"} \subseteq DOMAIN c

ResolvesCandidate(c) == ~IsNone(c, "book_text") /\ Resolves(c.book_text)

\* the candidates before position n whose book resolves, in order
RECURSIVE ResolvedPrefix(_, _)
ResolvedPrefix(cs, n) ==
    IF n = 0 THEN <<>>
    ELSE IF ResolvesCandidate(cs[n])
         THEN Append(ResolvedPrefix(cs, n - 1), cs[n])
         ELSE ResolvedPrefix(cs, n - 1)

ChaptersValid(book, s, e) == s >= 1 /\ e >= 1 /\ s <= e /\ e <= book.chapters

\* C5: every candidate whose book resolves is emitted, in order, with
\* is_valid set to the validator's result (so "Mat 29" is emitted with
\* is_valid = false); a candidate is dropped only when its book does not resolve.
C5_InvalidEmitted ==
    npc # "idle" =>
        LET kept == ResolvedPrefix(candidates, idx - 1)
        IN /\ Len(normalized) = Len(kept)
           /\ \A k \in 1..Len(kept) :
                /\ normalized[k].start_chapter = kept[k].start_chapter
                /\ normalized[k].end_chapter = kept[k].end_chapter
                /\ normalized[k].book_id = BookOf(kept[k].book_text).id
                /\ normalized[k].is_valid =
                       ChaptersValid(BookOf(kept[k].book_text),
                                     kept[k].start_chapter, kept[k].end_chapter)

C5_Witness ==
    /\ npc = "returned"
    /\ Len(candidates) = 2
    /\ \A i \in 1..2 : WellFormed(candidates[i])
    /\ candidates[1].book_text = s_Xyz
    /\ candidates[2].book_text = s_Mat
    /\ Len(normalized) = 1
    /\ normalized[1].book_id = 40
    /\ normalized[1].start_chapter = 29
    /\ normalized[1].end_chapter = 29
    /\ normalized[1].is_valid = FALSE

\* C8: a candidate whose book text matches nothing by either stage gets
\* method "failed" and no book, adds no reference, and raises the failed
\* counter by exactly one while the other two counters keep their value.
C8_FailedCounted ==
    [][(npc = "loop" /\ idx <= Len(candidates)
            /\ HasKey(candidates[idx], "book_text")
            /\ ~ResolvesCandidate(candidates[idx]))
        => /\ normalized' = normalized
           /\ last'.called /\ last'.book = NoBook /\ last'.method = "failed"
           /\ stats'.failed = stats.failed + 1
           /\ stats'.exact_match = stats.exact_match
           /\ stats'.fuzzy_match = stats.fuzzy_match]_vars

C8_Witness ==
    /\ npc = "returned"
    /\ Len(candidates) = 2
    /\ \A i \in 1..2 : WellFormed(candidates[i])
    /\ candidates[1].book_text = s_Kej
    /\ candidates[2].book_text = s_Xyz
    /\ candidates[2].start_chapter = 1 /\ candidates[2].end_chapter = 3
    /\ Len(normalized) = 1
    /\ stats = [exact_match |-> 1, fuzzy_match |-> 0, failed |-> 1]
    /\ last.method = "failed"

\* the text the reference format prescribes for a book name and a chapter range
FormatText(name, s, e) ==
    IF s = e THEN name \o <<" ">> \o str(s)
    ELSE name \o <<" ">> \o str(s) \o <<"-">> \o str(e)

\* C11: every emitted reference has normalized_text "{book} {start}-{end}"
\* when its chapters differ and "{book} {chapter}" when they are equal.
\* normalize writes "{book} {start}-{end}" for every candidate, so the
\* candidate ("Mat", 28, 28) comes out as "Matius 28-28".
C11_NormalizedText ==
    \A k \in 1..Len(normalized) :
        normalized[k].normalized_text =
            FormatText(normalized[k].book, normalized[k].start_chapter,
                       normalized[k].end_chapter)

\* C17: the record built from a candidate carries the candidate's confidence
\* and source unchanged, 1.0 and "rule" when the candidate has none, and the
\* records of the resolving candidates stand in the order of the input list,
\* whether a candidate came from the rule-based or from an external extractor.
C17_ConfidenceSourceKept ==
    npc # "idle" =>
        LET kept == ResolvedPrefix(candidates, idx - 1)
        IN /\ Len(normalized) = Len(kept)
           /\ \A k \in 1..Len(kept) :
                /\ normalized[k].raw_text = kept[k].book_text
                /\ normalized[k].confidence =
                       (IF "confidence" \in DOMAIN kept[k] THEN kept[k].confidence ELSE One)
                /\ normalized[k].source =
                       (IF "source" \in DOMAIN kept[k] THEN kept[k].source ELSE "rule")

C17_Witness ==
    /\ npc = "returned"
    /\ candidates = <<LlmCandidate(s_Matus, <<1, 3>>), BareCandidate(s_Kej, <<1, 3>>)>>
    /\ Len(normalized) = 2
    /\ normalized[1].confidence = <<7, 10>> /\ normalized[1].source = "llm"
    /\ normalized[2].confidence = One /\ normalized[2].source = "rule"

\* the catalog's book of an id
BookById(id) ==
    bible_books.books[CHOOSE i \in 1..Len(bible_books.books) : bible_books.books[i].id = id]

\* C19: every emitted reference lists the chapters start_chapter..end_chapter
\* in ascending order, both ends included: one element when they are equal,
\* none when start_chapter > end_chapter; and when is_valid is true every
\* listed chapter lies in 1..chapter count of the resolved book.
C19_ChaptersList ==
    \A k \in 1..Len(normalized) :
        LET r == normalized[k]
            s == r.start_chapter
            e == r.end_chapter
        IN /\ Len(r.chapters) = (IF s > e THEN 0 ELSE e - s + 1)
           /\ \A i \in 1..Len(r.chapters) : r.chapters[i] = s + i - 1
           /\ r.is_valid =>
                \A i \in 1..Len(r.chapters) :
                    r.chapters[i] \in 1..BookById(r.book_id).chapters

C19_Witness ==
    /\ npc = "returned"
    /\ candidates = <<RuleCandidate(s_Kej, <<1, 3>>), RuleCandidate(s_Mat, <<3, 1>>)>>
    /\ normalized[1].chapters = <<1, 2, 3>> /\ normalized[1].is_valid
    /\ normalized[2].chapters = <<>> /\ ~normalized[2].is_valid

\* the well-formed candidates of cs whose book resolves, in order
WellFormedResolved(cs) ==
    SelectSeq(cs, LAMBDA c : WellFormed(c) /\ Resolves(c.book_text))

\* C12: normalize gets through its whole input list: a malformed candidate
\* (a key missing or None) is dropped without raising, and every well-formed
\* candidate whose book resolves is in the output.  The empty result of the
\* LLM extractor is dropped so, but a candidate whose book resolves and whose
\* chapters are None or missing makes normalize raise and return nothing.
C12_MalformedSkipped ==
    /\ npc # "raised"
    /\ npc = "returned" =>
         /\ Len(normalized) = Len(WellFormedResolved(candidates))
         /\ \A k \in 1..Len(normalized) :
              normalized[k].raw_text = WellFormedResolved(candidates)[k].book_text

\* C29: every record normalize returns carries as raw_text the raw_text of
\* the candidate it was built from (the text originally matched), together
\* with the start_chapter and end_chapter of that same candidate.
C29_RawTextKept ==
    npc = "returned" =>
        \A k \in 1..Len(normalized) :
           k <= Len(WellFormedResolved(candidates)) =>
              LET ref == WellFormedResolved(candidates)[k]
              IN /\ normalized[k].raw_text = ref.raw_text
                 /\ normalized[k].start_chapter = ref.start_chapter
                 /\ normalized[k].end_chapter = ref.end_chapter

-----------------------------------------------------------------------------
\* Construction of the alias indexes: BookResolver.__init__

\* number of books of a catalog handed to the constructor
MaxBooks == 3

s_Yohanes == <<"Y","o","h","a","n","e","s">>
s_Yoh     == <<"Y","o","h">>
s_YOH     == <<"Y","O","H">>
s_Yoel    == <<"Y","o","e","l">>
s_Yunus   == <<"Y","u","n","u","s">>
s_Yun     == <<"Y","u","n">>
s_Yudas   == <<"Y","u","d","a","s">>

\* book records as the JSON loader returns them; "Yoh" is listed for two
\* books in different case, and "Yunus" is a name of one book and an alias of another
BookPool ==
    { [id |-> 43, name |-> s_Yohanes, aliases |-> <<s_Yohanes, s_Yoh>>,
       testament |-> "NT", chapters |-> 21],
      [id |-> 29, name |-> s_Yoel, aliases |-> <<s_Yoel, s_YOH>>,
       testament |-> "OT", chapters |-> 3],
      [id |-> 32, name |-> s_Yunus, aliases |-> <<s_Yunus, s_Yun>>,
       testament |-> "OT", chapters |-> 4],
      [id |-> 65, name |-> s_Yudas, aliases |-> <<s_Yudas, s_Yunus>>,
       testament |-> "NT", chapters |-> 1] }

\* lists of distinct books
Catalogs ==
    UNION {{c \in [1..n -> BookPool] : \A i, j \in 1..n : i # j => c[i] # c[j]}
           : n \in 1..MaxBooks}

CatalogInit ==
    /\ MatchIdle
    /\ ResolveIdle
    /\ ValidateIdle
    /\ NormIdle
    /\ RoundTripIdle
    /\ BuildIdle
    /\ ConcurrentIdle
    /\ ExtractIdle
    /\ catalog \in Catalogs
    /\ exact_mapping = <<>>
    /\ fuzzy_mapping = <<>>
    /\ cpc = "start"

\* self.exact_matcher = ExactBookMatcher(books)
ConstructExactMatcher ==
    /\ cpc = "start"
    /\ exact_mapping' = build_alias_mapping(catalog)
    /\ cpc' = "exact"
    /\ UNCHANGED <<catalog, fuzzy_mapping, frameCatalog>>

\* self.fuzzy_matcher = FuzzyBookMatcher(books); the counters start at zero
ConstructFuzzyMatcher ==
    /\ cpc = "exact"
    /\ fuzzy_mapping' = build_variation_mapping(catalog)
    /\ cpc' = "built"
    /\ UNCHANGED <<catalog, exact_mapping, frameCatalog>>

CatalogNext == ConstructExactMatcher \/ ConstructFuzzyMatcher

SpecCatalog == CatalogInit /\ [][CatalogNext]_vars

\* the keys a book claims: its name and its aliases, lower-cased and collapsed
KeysOfBook(b) ==
    {Collapse(Lower(b.name))} \cup {Collapse(Lower(b.aliases[i])) : i \in 1..Len(b.aliases)}

\* two distinct books of the catalog claim the same key
Collides(books) ==
    \E i, j \in 1..Len(books) :
        /\ books[i].id # books[j].id
        /\ KeysOfBook(books[i]) \cap KeysOfBook(books[j]) # {}

\* C9: building the alias index from a catalog in which two distinct books
\* claim the same normalized alias or name fails; no index is ever built that
\* keeps only one of the two books for that key.
C9_CollisionFails ==
    cpc \in {"exact", "built"} => ~Collides(catalog)

-----------------------------------------------------------------------------
\* resolve on a resolver built from any catalog

\* a name or alias as a message writes it: as listed, lower-cased, and with
\* whitespace around it
Written(w) == {w, Lower(w), <<" ">> \o w \o <<" ", " ">>}

\* the names and aliases of the books of a catalog
NamesOf(books) ==
    UNION {{books[i].name} \cup {books[i].aliases[j] : j \in 1..Len(books[i].aliases)}
           : i \in 1..Len(books)}

\* one call resolver.resolve(book_text) with a name or alias of the catalog
\* the resolver was built from
IndexResolve ==
    /\ cpc = "built"
    /\ stats.exact_match + stats.fuzzy_match + stats.failed < MaxCalls
    /\ \E w \in NamesOf(catalog) :
       \E q \in Written(w) :
       \E r \in {resolve([alias_to_book        |-> exact_mapping,
                          variation_to_book    |-> fuzzy_mapping,
                          similarity_threshold |-> SimilarityThreshold], q)} :
          /\ stats' = Count(stats, r.method)
          /\ last' = [called |-> TRUE, query |-> q, book |-> r.book,
                      method |-> r.method, stage |-> r.stage, conf |-> r.conf]
    /\ UNCHANGED frameResolve

IndexNext == ConstructExactMatcher \/ ConstructFuzzyMatcher \/ IndexResolve

SpecIndex == CatalogInit /\ [][IndexNext]_vars

\* C30: round trip through the alias index: for every catalog, every book
\* of it and every name or alias of that book, in any letter case and with
\* any surrounding whitespace, resolve returns that same book with method
\* exact.
C30_AliasRoundTrip ==
    (cpc = "built" /\ last # NoCall) =>
        \A i \in 1..Len(catalog) :
           KeyOf(last.query) \in KeysOfBook(catalog[i]) =>
              /\ last.book = catalog[i]
              /\ last.method = "exact"

-----------------------------------------------------------------------------
\* The patterns of the older BibleReferenceNormalizer and of RuleBasedExtractor.
\* Both have the shape  BOOK \s+ (\d+) TAIL  where BOOK is
\* \d?\s?WORD(?:\s+WORD)* with a word class and a bound on the repetition.

WordChars == Letters \cup Digits \cup {"_"}

IsWordChar(t, i) == i >= 0 /\ i < Len(t) /\ t[i + 1] \in WordChars

\* \b at offset p
WordBoundary(t, p) == IsWordChar(t, p - 1) # IsWordChar(t, p)

\* WORD(?:\s+WORD)* from offset q with n repetitions used so far: every word
\* is a maximal run followed by whitespace, and the whitespace is followed by
\* another word, which the repetition must take, or by the chapter digits
RECURSIVE WordChain(_, _, _, _, _)
WordChain(t, q, W, n, maxExtra) ==
    LET e == RunEnd(t, q, W)
        r == RunEnd(t, e, Spaces)
    IN IF e = q \/ r = e \/ r >= Len(t) THEN NoMatch
       ELSE IF t[r + 1] \in W
            THEN IF maxExtra >= 0 /\ n >= maxExtra THEN NoMatch
                 ELSE WordChain(t, r, W, n + 1, maxExtra)
       ELSE IF t[r + 1] \in Digits THEN [ok |-> TRUE, ge |-> e, end |-> r]
       ELSE NoMatch

\* \d?\s?WORD(?:\s+WORD)* at offset p
BookGroupAt(t, p, W, maxExtra) ==
    LET d == IF p < Len(t) /\ t[p + 1] \in Digits THEN 1 ELSE 0
        b == IF p + d < Len(t) /\ t[p + d + 1] \in Spaces THEN 1 ELSE 0
    IN WordChain(t, p + d + b, W, 0, maxExtra)

\* \s*-\s*(\d+)
HyphenTailAt(t, p) ==
    LET q == RunEnd(t, p, Spaces)
    IN IF q < Len(t) /\ t[q + 1] = "-"
       THEN NumberAt(t, RunEnd(t, q + 1, Spaces))
       ELSE NoMatch

\* the alternation (?:sampai|hingga|to) of both classes
OldRangeWords == << <<"s","a","m","p","a","i">>, <<"h","i","n","g","g","a">>, <<"t","o">> >>

\* \s+(?:sampai|hingga|to)\s+(\d+)
WordsTailAt(t, p) ==
    LET q  == RunEnd(t, p, Spaces)
        ws == {i \in 1..Len(OldRangeWords) : LiteralAt(t, q, OldRangeWords[i])}
    IN IF q > p /\ ws # {}
       THEN LET w == CHOOSE i \in ws : \A j \in ws : i <= j
                r == q + Len(OldRangeWords[w])
                e == RunEnd(t, r, Spaces)
            IN IF e > r THEN NumberAt(t, e) ELSE NoMatch
       ELSE NoMatch

\* one pattern at offset p; kind is "dash", "words" or "single"
ChapterPatternAt(kind, t, p, W, maxExtra, boundary) ==
    IF boundary /\ ~WordBoundary(t, p) THEN NoMatch
    ELSE LET bk == BookGroupAt(t, p, W, maxExtra)
         IN IF ~bk.ok THEN NoMatch
            ELSE LET c1 == NumberAt(t, bk.end)
                     tl == CASE kind = "dash"   -> HyphenTailAt(t, c1.end)
                             [] kind = "words"  -> WordsTailAt(t, c1.end)
                             [] kind = "single" -> NoMatch
                     g1 == <<p, bk.ge>>
                     g2 == <<c1.gs, c1.ge>>
                 IN IF kind = "single"
                    THEN [ok |-> TRUE, start |-> p, end |-> c1.end, g |-> <<g1, g2>>]
                    ELSE IF tl.ok
                         THEN [ok |-> TRUE, start |-> p, end |-> tl.end,
                               g |-> <<g1, g2, <<tl.gs, tl.ge>>>>]
                         ELSE NoMatch

RECURSIVE ChapterPatternSearch(_, _, _, _, _, _)
ChapterPatternSearch(kind, t, s, W, maxExtra, boundary) ==
    IF s >= Len(t) THEN NoMatch
    ELSE LET m == ChapterPatternAt(kind, t, s, W, maxExtra, boundary)
         IN IF m.ok THEN m
            ELSE ChapterPatternSearch(kind, t, s + 1, W, maxExtra, boundary)

\* list(pattern.finditer(text))
RECURSIVE ChapterPatternFindIter(_, _, _, _, _, _)
ChapterPatternFindIter(kind, t, s, W, maxExtra, boundary) ==
    LET m == ChapterPatternSearch(kind, t, s, W, maxExtra, boundary)
    IN IF m.ok
       THEN <<m>> \o ChapterPatternFindIter(kind, t, m.end, W, maxExtra, boundary)
       ELSE <<>>

\* self.chapter_patterns of the older normalizer: [a-zA-Z\-]+ words, any number
chapter_patterns == <<"dash", "words", "single">>

OldFindIter(kind, t) ==
    ChapterPatternFindIter(kind, t, 0, Letters \cup {"-"}, -1, FALSE)

\* self.patterns of RuleBasedExtractor: \b ... \b around [A-Za-z]+ words, {0,2}
rule_patterns == <<"dash", "words">>

RuleFindIter(kind, t) ==
    ChapterPatternFindIter(kind, t, 0, Letters, 2, TRUE)

-----------------------------------------------------------------------------
\* The older BibleReferenceNormalizer (preprocessing/bible_reference_normalizer.py)

\* build_alias_mapping of the older class: each alias, then the name
RECURSIVE OldBuildMapping(_, _)
OldBuildMapping(d, books) ==
    IF books = <<>> THEN d
    ELSE OldBuildMapping(
            DictSet(SetAliases(d, Head(books).aliases, Head(books)),
                    Lower(Head(books).name), Head(books)),
            Tail(books))

old_alias_to_book == OldBuildMapping(<<>>, bible_books.books)

get_book_data(abbreviation) == DictGet(old_alias_to_book, Collapse(Lower(abbreviation)))

\* a in b on strings
IsSubstring(a, b) ==
    \E i \in 0..(Len(b) - Len(a)) : SubSeq(b, i + 1, i + Len(a)) = a

\* a reference whose range is written with an en dash
OldReference_enDash(book_data, start_ch, end_ch, raw_text, isRange) ==
    [book            |-> book_data.name,
     book_id         |-> book_data.id,
     testament       |-> book_data.testament,
     start_chapter   |-> start_ch,
     end_chapter     |-> end_ch,
     chapters        |-> range(start_ch, end_ch + 1),
     raw_text        |-> raw_text,
     normalized_text |-> IF isRange
                         THEN book_data.name \o <<" ">> \o str(start_ch)
                                \o <<"ndash">> \o str(end_ch)
                         ELSE book_data.name \o <<" ">> \o str(start_ch),
     is_valid        |-> normalizer_validate_chapters(book_data, start_ch, end_ch)]

\* the dict appended by extract_all_references: three groups give the range
\* form of normalized_text, two groups the single-chapter form
OldReference(book_data, start_ch, end_ch, raw_text, isRange) ==
    [book            |-> book_data.name,
     book_id         |-> book_data.id,
     testament       |-> book_data.testament,
     start_chapter   |-> start_ch,
     end_chapter     |-> end_ch,
     chapters        |-> range(start_ch, end_ch + 1),
     raw_text        |-> raw_text,
     normalized_text |-> IF isRange
                         THEN book_data.name \o <<" ">> \o str(start_ch)
                                \o <<"-">> \o str(end_ch)
                         ELSE book_data.name \o <<" ">> \o str(start_ch),
     is_valid        |-> normalizer_validate_chapters(book_data, start_ch, end_ch)]

\* the body of "for match in matches"
OldMatchBody(t, m, references) ==
    LET raw_text == Slice(t, m.start, m.end)
    IN IF \E k \in 1..Len(references) : IsSubstring(raw_text, references[k].raw_text)
       THEN references
       ELSE LET book_data == get_book_data(Slice(t, m.g[1][1], m.g[1][2]))
                first     == ParseInt(Slice(t, m.g[2][1], m.g[2][2]))
            IN IF book_data = NoBook THEN references
               ELSE IF Len(m.g) = 3
                    THEN Append(references,
                                OldReference(book_data, first,
                                             ParseInt(Slice(t, m.g[3][1], m.g[3][2])),
                                             raw_text, TRUE))
                    ELSE Append(references,
                                OldReference(book_data, first, first, raw_text, FALSE))

RECURSIVE OldMatches(_, _, _)
OldMatches(t, ms, references) ==
    IF ms = <<>> THEN references
    ELSE OldMatches(t, Tail(ms), OldMatchBody(t, Head(ms), references))

RECURSIVE OldPatterns(_, _, _)
OldPatterns(t, n, references) ==
    IF n > Len(chapter_patterns) THEN references
    ELSE OldPatterns(t, n + 1,
                     OldMatches(t, OldFindIter(chapter_patterns[n], t), references))

extract_all_references(t) == OldPatterns(Lower(t), 1, <<>>)

-----------------------------------------------------------------------------
\* RuleBasedExtractor.extract followed by normalize: BibleProgressPipeline.process_message

RuleCandidateOf(t, m) ==
    [book_text     |-> Slice(t, m.g[1][1], m.g[1][2]),
     start_chapter |-> ParseInt(Slice(t, m.g[2][1], m.g[2][2])),
     end_chapter   |-> ParseInt(Slice(t, m.g[3][1], m.g[3][2])),
     raw_text      |-> Slice(t, m.start, m.end),
     confidence    |-> One,
     source        |-> "rule"]

RECURSIVE RulePatterns(_, _)
RulePatterns(t, n) ==
    IF n > Len(rule_patterns) THEN <<>>
    ELSE LET ms == RuleFindIter(rule_patterns[n], t)
         IN [i \in 1..Len(ms) |-> RuleCandidateOf(t, ms[i])] \o RulePatterns(t, n + 1)

\* RuleBasedExtractor.extract
rule_extract(t) == RulePatterns(t, 1)

\* normalize as one call: the list returned, the counters and the last
\* result of resolve after the loop
RECURSIVE NormalizeLoop(_, _, _)
NormalizeLoop(cs, i, acc) ==
    IF i > Len(cs) THEN acc
    ELSE LET r == resolve(Resolver, cs[i].book_text)
         IN NormalizeLoop(cs, i + 1,
                [normalized |-> NormalizeBody(acc.normalized, cs[i], r.book),
                 stats      |-> Count(acc.stats, r.method),
                 last       |-> [called |-> TRUE, query |-> cs[i].book_text,
                                 book |-> r.book, method |-> r.method,
                                 stage |-> r.stage, conf |-> r.conf]])

\* normalized = self.normalizer.normalize(candidates) on the resolver as it is
normalize(cs) ==
    NormalizeLoop(cs, 1, [normalized |-> <<>>, stats |-> stats, last |-> last])

-----------------------------------------------------------------------------
\* Extraction, and extraction again from the normalized_text of a result

\* number of extractions in a row, the first one included
MaxGenerations == 2

ValidRanges(b) == {ch \in (1..b.chapters) \X (1..b.chapters) : ch[1] <= ch[2]}

DashText(w, ch)  == w \o <<" ">> \o str(ch[1]) \o <<"-">> \o str(ch[2])
SpacedDashText(w, ch) == w \o <<" ">> \o str(ch[1]) \o <<" ","-"," ">> \o str(ch[2])
WordsText(w, ch) == w \o <<" ">> \o str(ch[1]) \o <<" ","s","a","m","p","a","i"," ">> \o str(ch[2])
SingleText(w, c) == w \o <<" ">> \o str(c)

\* every book of the catalog with every valid range and every valid chapter,
\* written with the canonical name
CanonicalTexts ==
    UNION {{DashText(b.name, ch) : ch \in ValidRanges(b)} : b \in Books}
    \cup UNION {{SingleText(b.name, c) : c \in 1..b.chapters} : b \in Books}

\* names, aliases and misspellings as written in a message
WrittenBooks ==
    {AllAliases(bible_books.books)[i] : i \in 1..Len(AllAliases(bible_books.books))}
    \cup {Lower(s_Kej), <<"K","E","L">>, s_Matus, s_Xyz}

WrittenChapters == {<<1, 3>>, <<5, 5>>, <<2, 16>>, <<16, 17>>, <<3, 1>>}

WrittenTexts ==
    UNION {{DashText(w, ch), SpacedDashText(w, ch), WordsText(w, ch), SingleText(w, ch[2])}
           : w \in WrittenBooks, ch \in WrittenChapters}

\* messages with more than a reference in them
t_TwoRefs   == s_Kej \o <<" ","1","-","3"," ">> \o s_Mat \o <<" ","5","-","7">>
t_Sentence  == <<"b","a","c","a"," ">> \o s_Kej \o <<" ","1","-","3">>
t_ThenOne   == s_Kej \o <<" ","1","-","3"," ">> \o s_Kel \o <<" ","2">>
t_Repeated  == s_Mat \o <<" ","5"," ">> \o s_Mat \o <<" ","5","-","7">>
t_Paren     == s_Kej \o <<" ","1","-","3"," ","(">> \o s_Kej \o <<" ","1",")">>

RoundTripTexts ==
    CanonicalTexts \cup WrittenTexts
    \cup {t_TwoRefs, t_Sentence, t_ThenOne, t_Repeated, t_Paren}

RoundTripInit ==
    /\ MatchIdle
    /\ ResolveIdle
    /\ ValidateIdle
    /\ NormIdle
    /\ CatalogIdle
    /\ BuildIdle
    /\ ConcurrentIdle
    /\ ExtractIdle
    /\ rt_path \in {"old", "pipeline"}
    /\ rt_text \in RoundTripTexts
    /\ rt_refs = <<>>
    /\ rt_parent = NoCall
    /\ rt_gen = 0

\* what the next extraction is given: the text itself the first time, then
\* the normalized_text of one of the references of the previous extraction
NextInputs ==
    IF rt_gen = 0
    THEN {[parent |-> NoCall, text |-> rt_text]}
    ELSE {[parent |-> rt_refs[k], text |-> rt_refs[k].normalized_text]
          : k \in 1..Len(rt_refs)}

\* references = normalizer.extract_all_references(text) on the older class
OldExtract ==
    /\ rt_path = "old"
    /\ rt_gen < MaxGenerations
    /\ \E in \in NextInputs :
         /\ rt_parent' = in.parent
         /\ rt_text' = in.text
         /\ rt_refs' = extract_all_references(in.text)
    /\ rt_gen' = rt_gen + 1
    /\ UNCHANGED <<rt_path, resolveVars, normVars, frameRoundTrip>>

\* normalized = pipeline.process_message(message) with no LLM handler
\* configured: candidates = self.extractor.extract(message), then
\* self.normalizer.normalize(candidates)
PipelineProcess ==
    /\ rt_path = "pipeline"
    /\ rt_gen < MaxGenerations
    /\ \E in \in NextInputs :
       \E cs \in {rule_extract(in.text)} :
       \E out \in {normalize(cs)} :
         /\ rt_parent' = in.parent
         /\ rt_text' = in.text
         /\ candidates' = cs
         /\ normalized' = out.normalized
         /\ rt_refs' = out.normalized
         /\ stats' = out.stats
         /\ last' = out.last
    /\ rt_gen' = rt_gen + 1
    /\ UNCHANGED <<rt_path, idx, npc, frameRoundTrip>>

RoundTripNext == OldExtract \/ PipelineProcess

SpecRoundTrip == RoundTripInit /\ [][RoundTripNext]_vars

C28_SkipOnlyOnOverlap ==
    (rt_path = "old" /\ rt_gen > 0) =>
        LET t == Lower(rt_text)
        IN \A n \in 1..Len(chapter_patterns) :
              LET ms == OldFindIter(chapter_patterns[n], t)
              IN \A i \in 1..Len(ms) :
                    (/\ get_book_data(Slice(t, ms[i].g[1][1], ms[i].g[1][2])) # NoBook
                     /\ \A j \in 1..(n - 1) :
                           LET es == OldFindIter(chapter_patterns[j], t)
                           IN \A k \in 1..Len(es) :
                                 \/ ms[i].end <= es[k].start
                                 \/ es[k].end <= ms[i].start)
                    => \E k \in 1..Len(rt_refs) :
                          rt_refs[k].raw_text = Slice(t, ms[i].start, ms[i].end)


-----------------------------------------------------------------------------
(* BibleProgressExtractor (models/extraction): extract and extract_batch    *)
(*                                                                         *)
(* The LLM handler is outside the program.  For each message it has one    *)
(* answer: it raises, or it returns a string, or it returns a dict;        *)
(* generate returns (or raises) the answer for its prompt, generate_batch  *)
(* returns the list of answers and raises when one of them does.           *)

\* number of messages handed to extract_batch
MaxMessages == 2

\* "Kej 1-3" and a message that names no reference
Messages == {s_Kej \o <<" ","1","-","3">>, <<"h","a","l","o">>}

\* strings an LLM returns: nothing, prose, and text holding a JSON object
r_Empty  == <<>>
r_Prose  == <<"K","e","j"," ","1">>
r_Object == <<"o","k",":"," ","{","}">>

Responses == {r_Empty, r_Prose, r_Object}

\* the answers of the handler for a message
Answers(message) ==
    {[kind |-> "raise"]}
    \cup {[kind |-> "str", response |-> r] : r \in Responses}
    \cup {[kind |-> "dict", value |-> v] :
            v \in {LlmCandidate(s_Kej, <<1, 3>>), empty_result(message),
                   TextlessCandidate(<<1, 3>>)}}

\* the texts json.loads turns into a dict, among those extract_json can return
JsonObjects == {<<"{","}">>}

\* re.findall(r"\{[\s\S]*?\}", text): each "{" up to the next "}", left to right
RECURSIVE BraceMatches(_, _)
BraceMatches(t, p) ==
    LET opens == {i \in (p + 1)..Len(t) : t[i] = "{"}
    IN IF opens = {} THEN <<>>
       ELSE LET o == CHOOSE i \in opens : \A j \in opens : i <= j
                closes == {i \in (o + 1)..Len(t) : t[i] = "}"}
            IN IF closes = {} THEN <<>>
               ELSE LET c == CHOOSE i \in closes : \A j \in closes : i <= j
                    IN <<SubSeq(t, o, c)>> \o BraceMatches(t, c)

\* LLMExtractor.parse_response: a list, or None when the JSON read is no list.
\* extract_json returns text from "{" to "}", which json.loads reads as a dict
\* or rejects, so the branch that builds candidates from a list is never taken.
parse_response(response, message) ==
    IF response = <<>> \/ Strip(response) = <<>>
    THEN [isNone |-> FALSE, list |-> <<empty_result(message)>>]
    ELSE LET matches == BraceMatches(response, 0)
         IN IF matches = <<>>
            THEN [isNone |-> FALSE, list |-> <<empty_result(message)>>]
            ELSE IF matches[Len(matches)] \in JsonObjects
            THEN [isNone |-> TRUE]
            ELSE [isNone |-> FALSE, list |-> <<empty_result(message)>>]

\* llm_result.get('book_text') is truthy
HasBookText(d) ==
    /\ "book_text" \in DOMAIN d
    /\ d.book_text # <<>>

\* the exception raised inside the try block of extract, "" when none is:
\* the handler's own, or the AttributeError of .get on a string
LlmFailure(answer) ==
    CASE answer.kind = "raise" -> "Exception"
      [] answer.kind = "str"   -> "AttributeError"
      [] answer.kind = "dict"  -> ""

\* an extract whose LLM call is not guarded by try/except
extract_unguarded(cfg, message, answer) ==
    IF cfg.first /\ cfg.llm
    THEN IF LlmFailure(answer) # ""
         THEN [raised |-> TRUE, out |-> <<>>, source |-> "none"]
         ELSE IF HasBookText(answer.value)
         THEN [raised |-> FALSE, out |-> <<answer.value>>, source |-> "llm"]
         ELSE [raised |-> FALSE, out |-> rule_extract(message), source |-> "rule"]
    ELSE [raised |-> FALSE, out |-> rule_extract(message), source |-> "rule"]

\* BibleProgressExtractor.extract
extract(cfg, message, answer) ==
    IF cfg.first /\ cfg.llm /\ LlmFailure(answer) = "" /\ HasBookText(answer.value)
    THEN [raised |-> FALSE, out |-> <<answer.value>>, source |-> "llm"]
    ELSE [raised |-> FALSE, out |-> rule_extract(message), source |-> "rule"]

\* the exception LLMExtractor.extract_batch raises, "" when it raises none:
\* None.extract_batch without an LLM extractor, the handler's own, or
\* response.strip() of an answer that is not a string
BatchFailure(cfg, answers) ==
    IF ~cfg.llm THEN "AttributeError"
    ELSE IF \E i \in 1..Len(answers) : answers[i].kind = "raise" THEN "Exception"
    ELSE IF \E i \in 1..Len(answers) : answers[i].kind = "dict" THEN "AttributeError"
    ELSE ""

\* one entry of final_results
BatchEntry(message, result) ==
    IF ~result.isNone /\ result.list # <<>> /\ HasBookText(result.list[1])
    THEN [out |-> <<result.list>>, source |-> "llm"]
    ELSE [out |-> rule_extract(message), source |-> "rule"]

\* BibleProgressExtractor.extract_batch
extract_batch(cfg, messages, answers) ==
    IF (~cfg.first /\ ~cfg.llm) \/ BatchFailure(cfg, answers) # ""
    THEN [i \in 1..Len(messages) |->
            [out |-> rule_extract(messages[i]), source |-> "rule"]]
    ELSE [i \in 1..Len(messages) |->
            BatchEntry(messages[i],
                       parse_response(answers[i].response, messages[i]))]

ExtractInit ==
    /\ MatchIdle
    /\ ResolveIdle
    /\ ValidateIdle
    /\ NormIdle
    /\ CatalogIdle
    /\ RoundTripIdle
    /\ BuildIdle
    /\ ConcurrentIdle
    /\ x_cfg \in [llm : BOOLEAN, first : BOOLEAN]
    /\ x_messages \in UNION {[1..n -> Messages] : n \in 0..MaxMessages}
    /\ x_llm \in {a \in UNION {[1..n -> UNION {Answers(m) : m \in Messages}] :
                                  n \in 0..MaxMessages} :
                     /\ Len(a) = Len(x_messages)
                     /\ \A i \in 1..Len(a) : a[i] \in Answers(x_messages[i])}
    /\ x_single = <<>>
    /\ x_batch = NotRun

\* extractor.extract(message) for the next message of the list
ExtractCall ==
    /\ Len(x_single) < Len(x_messages)
    /\ \E r \in {extract(x_cfg, x_messages[Len(x_single) + 1],
                         x_llm[Len(x_single) + 1])} :
          x_single' = Append(x_single, r)
    /\ UNCHANGED <<x_cfg, x_messages, x_llm, x_batch, frameExtract>>

\* extractor.extract_batch(messages)
ExtractBatchCall ==
    /\ x_batch = NotRun
    /\ \E r \in {extract_batch(x_cfg, x_messages, x_llm)} :
          x_batch' = [run |-> TRUE, entries |-> r]
    /\ UNCHANGED <<x_cfg, x_messages, x_llm, x_single, frameExtract>>

ExtractNext == ExtractCall \/ ExtractBatchCall

SpecExtract == ExtractInit /\ [][ExtractNext]_vars

\* C25: extract never fails because of the LLM extractor.  It returns the
\* rule-based candidates when no LLM extractor is configured, when LLM-first is
\* off, when the LLM call raises and when the LLM result carries no book_text;
\* it returns the single LLM candidate exactly when LLM-first is on, an LLM
\* extractor is configured and its result has a book_text.
C25_LlmNeverFails ==
    \A i \in 1..Len(x_single) :
        LET r      == x_single[i]
            answer == x_llm[i]
            useLlm == /\ x_cfg.first
                      /\ x_cfg.llm
                      /\ answer.kind = "dict"
                      /\ "book_text" \in DOMAIN answer.value
                      /\ answer.value.book_text # <<>>
        IN /\ ~r.raised
           /\ useLlm => r.out = <<answer.value>> /\ r.source = "llm"
           /\ ~useLlm => r.out = rule_extract(x_messages[i]) /\ r.source = "rule"

C25_Witness ==
    /\ x_cfg = [llm |-> TRUE, first |-> TRUE]
    /\ Len(x_messages) = 2
    /\ Len(x_single) = 2
    /\ x_llm[1].kind = "raise"
    /\ x_single[1].source = "rule"
    /\ Len(x_single[1].out) = 1
    /\ x_single[1].out[1].book_text = s_Kej
    /\ x_llm[2].kind = "dict"
    /\ x_single[2].source = "llm"
    /\ x_single[2].out = <<LlmCandidate(s_Kej, <<1, 3>>)>>

\* C27: for every list of messages and every configuration,
\* extract_batch(messages)[i] equals extract(messages[i]): the same source is
\* chosen and the entry is the same list of candidate records.
C27_BatchEqualsSingle ==
    (x_batch.run /\ Len(x_single) = Len(x_messages)) =>
        /\ Len(x_batch.entries) = Len(x_messages)
        /\ \A i \in 1..Len(x_messages) :
              /\ x_batch.entries[i].source = x_single[i].source
              /\ x_batch.entries[i].out = x_single[i].out


=============================================================================
